---------------------------- MODULE Spec2Model ----------------------------
(***************************************************************************)
(* Extension runtime of SudoBot (ExtensionManager): the guild-id resolver  *)
(* table, the per-guild enablement rule, the dispatch wrapper built by     *)
(* wrapHandler, the activation loop postConstruct, the catalog metadata    *)
(* client getExtensionMetadata, the install pipeline                       *)
(* fetchAndInstallExtension, and the loader boot / loadExtensions.         *)
(***************************************************************************)
EXTENDS Integers, Sequences, FiniteSets, TLC

VARIABLES
    extensions,    \* ExtensionManager.extensions: the registry, in load order
    activation,    \* position of the postConstruct() loop
    hookLog,       \* history: the extension hooks called so far, in order
    listeners,     \* the host's listener list, filled by addEventListener
    config,        \* ConfigurationManager.config[guildId]?.extensions
    systemConfig,  \* ConfigurationManager.systemConfig.extensions
    occ,           \* the event occurrence the host is dispatching, or NoOcc
    threwLast,     \* history: extensions whose handler threw in the last finished occurrence
    hostErrors,    \* history: rejections that reached the host
    cache,         \* the store behind cache(): one entry per cache key
    now,           \* the clock, in milliseconds
    calls,         \* the getExtensionMetadata calls, by caller
    fetches,       \* history: the catalog requests issued so far, in order
    extensionsPath,\* ExtensionManager.extensionsPath (env.EXTENSIONS_DIRECTORY)
    stream,        \* the output sink of the install invocations: what was written, in order
    inst,          \* the fetchAndInstallExtension invocations, by invocation
    files,         \* the temporary area and the extensions directory on disk
    directory,     \* the extensions directory as the loader finds it at startup
    loader,        \* position of boot() / loadExtensions(), its log and the process exit
    response,      \* a writable stream under writeStream, and the download writing to it
    build,         \* position of the loops of getGuildIdResolversMap() and the map so far
    rules          \* position of processMessageRules() over the configured rules

runtimeVars == <<extensions, activation, hookLog, listeners, config, systemConfig,
                 occ, threwLast, hostErrors>>

pipelineVars == <<cache, now, calls, fetches, extensionsPath, stream, inst, files>>

loaderVars == <<directory, loader>>

auxVars == <<response, build, rules>>

vars == <<runtimeVars, pipelineVars, loaderVars, auxVars>>

-----------------------------------------------------------------------------
(* JavaScript values *)

Undefined == "undefined"
Null == "null"

Nullish(x) == x \in {Null, Undefined}

\* a ?? b falling back on undefined alone, so that null passes through
CoalesceUndefinedOnly(a, b) == IF a = Undefined THEN b ELSE a

\* a ?? b
Coalesce(a, b) == IF Nullish(a) THEN b ELSE a

\* guild?.id, where the field holds the guild's id, or null/undefined for no guild
OptId(guild) == IF Nullish(guild) THEN Undefined ELSE guild

Guilds == {"g1", "g2"}
ExtIds == {"extA", "extB"}

-----------------------------------------------------------------------------
(* Event payloads.  One event argument is a record of the fields the       *)
(* resolvers read: guild (the id of data.guild, or null), guildId, id,     *)
(* and dm (isDMBased()).                                                   *)

Data(guild, guildId, id, dm) == [guild |-> guild, guildId |-> guildId, id |-> id, dm |-> dm]

NoData == Data(Null, Null, Null, FALSE)

\* a message, channel or guild object of guild g with its guild cached
GuildData(g) == Data(g, g, g, FALSE)

\* a message of guild g whose guild object is not cached: guild is null, guildId is set
UncachedData(g) == Data(Null, g, g, FALSE)

\* a direct message or DM-based channel: no guild, no guildId
DMData == Data(Null, Null, "dm", TRUE)

-----------------------------------------------------------------------------
(* guildIdResolvers: the fixed entry list.  Each resolver is named by the  *)
(* position of its entry; Resolver(r, args) evaluates it.                  *)

guildIdResolvers == <<
    [events |-> {"applicationCommandPermissionsUpdate"}, resolver |-> 1],
    [events |-> {"autoModerationActionExecution", "autoModerationRuleCreate",
                 "autoModerationRuleDelete", "autoModerationRuleUpdate"}, resolver |-> 2],
    [events |-> {"messageCreate", "normalMessageCreate", "normalMessageDelete",
                 "normalMessageUpdate", "messageDelete", "messageUpdate",
                 "interactionCreate"}, resolver |-> 3],
    [events |-> {"messageDeleteBulk"}, resolver |-> 4],
    [events |-> {"channelCreate", "channelDelete", "channelUpdate", "channelPinsUpdate"},
     resolver |-> 5],
    [events |-> {"emojiCreate", "emojiDelete", "emojiUpdate"}, resolver |-> 6],
    [events |-> {"messageReactionAdd", "messageReactionRemove",
                 "messageReactionRemoveEmoji"}, resolver |-> 7],
    [events |-> {"messageReactionRemoveAll"}, resolver |-> 8],
    [events |-> {"guildAuditLogEntryCreate", "guildMembersChunk", "threadListSync"},
     resolver |-> 9],
    [events |-> {"guildAvailable", "guildCreate", "guildDelete", "guildUpdate",
                 "guildUnavailable", "guildIntegrationsUpdate"}, resolver |-> 10],
    [events |-> {"guildBanAdd", "guildBanRemove", "guildMemberAdd", "guildMemberRemove",
                 "guildMemberUpdate", "guildMemberAvailable", "inviteCreate",
                 "inviteDelete", "roleCreate", "roleDelete"}, resolver |-> 11],
    [events |-> {"guildScheduledEventCreate", "guildScheduledEventDelete",
                 "guildScheduledEventUserAdd", "guildScheduledEventUserRemove"},
     resolver |-> 12],
    [events |-> {"guildScheduledEventUpdate"}, resolver |-> 13],
    [events |-> {"presenceUpdate", "roleUpdate", "stageInstanceUpdate", "stickerUpdate",
                 "threadUpdate", "voiceStateUpdate"}, resolver |-> 14],
    [events |-> {"stageInstanceDelete", "stageInstanceCreate", "stickerCreate",
                 "stickerDelete", "threadCreate", "threadDelete"}, resolver |-> 15],
    [events |-> {"threadMemberUpdate"}, resolver |-> 16],
    [events |-> {"typingStart", "webhookUpdate"}, resolver |-> 17],
    [events |-> {"command"}, resolver |-> 18],
    [events |-> {"cacheSweep", "debug", "error", "warn", "invalidated", "ready",
                 "shardReady", "shardDisconnect", "shardError", "shardReconnecting",
                 "shardResume"}, resolver |-> 19] >>

\* args[i], or an absent argument
Arg(args, i) == IF i <= Len(args) THEN args[i] ELSE NoData

Resolver(r, args) ==
    LET data == Arg(args, 1)
        data2 == Arg(args, 2)
        data4 == Arg(args, 4)
    IN CASE r = 1 -> data.guildId
         [] r = 2 -> Coalesce(data.guild, Undefined)
         [] r = 3 -> Coalesce(Coalesce(OptId(data.guild), data.guildId), Undefined)
         [] r = 4 -> Coalesce(data.guildId, Undefined)
         [] r = 5 -> IF data.dm THEN Undefined ELSE data.guildId
         [] r = 6 -> Coalesce(OptId(data.guild), Undefined)
         [] r = 7 -> Coalesce(data.guildId, Undefined)
         [] r = 8 -> Coalesce(data.guildId, Undefined)
         [] r = 9 -> Coalesce(data2.id, Undefined)
         [] r = 10 -> Coalesce(data.id, Undefined)
         [] r = 11 -> Coalesce(OptId(data.guild), Undefined)
         [] r = 12 -> Coalesce(Coalesce(OptId(data.guild), data.guildId), Undefined)
         [] r = 13 -> Coalesce(Coalesce(OptId(data.guild), data.guildId), Undefined)
         [] r = 14 -> Coalesce(Coalesce(OptId(data.guild), OptId(data2.guild)), Undefined)
         [] r = 15 -> Coalesce(OptId(data.guild), Undefined)
         [] r = 16 -> Coalesce(Coalesce(OptId(data.guild), OptId(data2.guild)), Undefined)
         [] r = 17 -> Coalesce(OptId(data.guild), Undefined)
         [] r = 18 -> Coalesce(data4.guildId, Undefined)
         [] r = 19 -> Null

\* map.set(event, resolver) for every event of one entry, over the map built so far
SetEvents(map, entry) ==
    [e \in DOMAIN map \cup entry.events |->
        IF e \in entry.events THEN entry.resolver ELSE map[e]]

RECURSIVE FoldResolvers(_, _)
FoldResolvers(entries, n) ==
    IF n = 0 THEN << >>
    ELSE SetEvents(FoldResolvers(entries, n - 1), entries[n])

getGuildIdResolversMap == FoldResolvers(guildIdResolvers, Len(guildIdResolvers))

\* map.set keeping the resolver a kind already has
mapSetFirstWins(map, event, resolver) ==
    [e \in DOMAIN map \cup {event} |-> IF e \in DOMAIN map THEN map[e] ELSE resolver]

\* map.set(event, resolver)
mapSet(map, event, resolver) ==
    [e \in DOMAIN map \cup {event} |-> IF e = event THEN resolver ELSE map[e]]

\* the two logger.warn calls made for an event the map already has
OverlapWarnings(event) ==
    << [level |-> "warn", text |-> "Overlapping Guild ID Resolvers detected", event |-> event],
       [level |-> "warn", text |-> "This seems to be an internal bug", event |-> ""] >>

\* entries of a resolver list: how many, how many events each names, and the
\* event kinds they are drawn from
MaxResolverEntries == 3
MaxEntryEvents == 2
ResolverKinds == {"messageCreate", "messageUpdate"}

EventArrays ==
    UNION {[1..n -> ResolverKinds] : n \in 1..MaxEntryEvents}

\* the events arrays of the entries of a resolver list, entry by entry
EventArrayLists ==
    UNION {[1..len -> EventArrays] : len \in 0..MaxResolverEntries}

\* the resolver list whose entries name the given events; each resolver is
\* named by the position of its entry
ResolverList(f) ==
    [n \in DOMAIN f |-> [events |-> f[n], resolver |-> n]]

\* getGuildIdResolversMap() is called: const map = new Map()
InitBuild ==
    \E f \in EventArrayLists :
        build = [status |-> "building", entries |-> ResolverList(f), n |-> 1,
                 k |-> 0, map |-> << >>, warns |-> << >>]

\* the inner loop takes the next event of the current entry: it warns if the
\* map has it, and sets it
BuildEvent ==
    /\ build.status = "building"
    /\ build.n <= Len(build.entries)
    /\ build.k < Len(build.entries[build.n].events)
    /\ LET guildIdResolver == build.entries[build.n]
           event == guildIdResolver.events[build.k + 1]
       IN build' = [build EXCEPT
                       !.k = @ + 1,
                       !.warns = IF event \in DOMAIN build.map
                                 THEN @ \o OverlapWarnings(event) ELSE @,
                       !.map = mapSet(@, event, guildIdResolver.resolver)]
    /\ UNCHANGED <<runtimeVars, pipelineVars, loaderVars, response, rules>>

\* the events of the current entry are exhausted: the outer loop goes on
BuildNextEntry ==
    /\ build.status = "building"
    /\ build.n <= Len(build.entries)
    /\ build.k = Len(build.entries[build.n].events)
    /\ build' = [build EXCEPT !.n = @ + 1, !.k = 0]
    /\ UNCHANGED <<runtimeVars, pipelineVars, loaderVars, response, rules>>

\* the entries are exhausted: return map
BuildReturn ==
    /\ build.status = "building"
    /\ build.n > Len(build.entries)
    /\ build' = [build EXCEPT !.status = "done"]
    /\ UNCHANGED <<runtimeVars, pipelineVars, loaderVars, response, rules>>

\* this.guildIdResolvers.get(eventName)?.(args)
ResolveGuildId(eventName, args) ==
    IF eventName \in DOMAIN getGuildIdResolversMap
    THEN Resolver(getGuildIdResolversMap[eventName], args)
    ELSE Undefined

-----------------------------------------------------------------------------
(* Enablement.  An object is a function from its own keys; a key it lacks  *)
(* reads as undefined.                                                     *)

EmptyObject == [k \in {} |-> TRUE]

Has(obj, key) == key \in DOMAIN obj

\* isEnabled with enabled || (default_mode === "enable_all")
isEnabledOr(extensionId, guildId) ==
    LET extensionsConfig == IF guildId \in DOMAIN config THEN config[guildId] ELSE EmptyObject
        system == systemConfig
        default_mode == IF Has(system, "default_mode") THEN system.default_mode ELSE Undefined
    IN /\ \/ (Has(extensionsConfig, "enabled") /\ extensionsConfig.enabled)
          \/ default_mode = "enable_all"
       /\ ~(/\ Has(extensionsConfig, "disabled_extensions")
            /\ extensionId \in extensionsConfig.disabled_extensions)

\* isEnabled taking an unset default mode for enable_all:
\* enabled === undefined ? default_mode !== "disable_all" : enabled
isEnabledDefaultOn(extensionId, guildId) ==
    LET extensionsConfig == IF guildId \in DOMAIN config THEN config[guildId] ELSE EmptyObject
        system == systemConfig
        default_mode == IF Has(system, "default_mode") THEN system.default_mode ELSE Undefined
    IN /\ IF ~Has(extensionsConfig, "enabled")
          THEN default_mode # "disable_all"
          ELSE extensionsConfig.enabled
       /\ ~(/\ Has(extensionsConfig, "disabled_extensions")
            /\ extensionId \in extensionsConfig.disabled_extensions)

\* const { disabled_extensions, enabled } = config[guildId]?.extensions ?? {};
\* const { default_mode } = systemConfig.extensions ?? {};
\* (enabled === undefined ? default_mode === "enable_all" : enabled)
\*     && !disabled_extensions?.includes(extensionId)
isEnabled(extensionId, guildId) ==
    LET extensionsConfig == IF guildId \in DOMAIN config THEN config[guildId] ELSE EmptyObject
        system == systemConfig
        default_mode == IF Has(system, "default_mode") THEN system.default_mode ELSE Undefined
    IN /\ IF ~Has(extensionsConfig, "enabled")
          THEN default_mode = "enable_all"
          ELSE extensionsConfig.enabled
       /\ ~(/\ Has(extensionsConfig, "disabled_extensions")
            /\ extensionId \in extensionsConfig.disabled_extensions)

-----------------------------------------------------------------------------
(* The wrapped handler returned by wrapHandler.                            *)

LogLine(level, text, extensionId) == [level |-> level, text |-> text, ext |-> extensionId]

\* the closure wrapHandler returns; loadEventClass passes no bail
wrapHandler(extensionId, eventName, bail) ==
    [ext |-> extensionId, event |-> eventName, bail |-> bail]

\* WrapEnter without the enablement check
WrapEnterNoCheck(extensionId, eventName, args) ==
    LET guildId == ResolveGuildId(eventName, args)
    IN IF guildId = Undefined
       THEN [guildId |-> guildId, outcome |-> "dropped", checked |-> FALSE,
             logs |-> << LogLine("error", "Invalid event or failed to fetch guild", "") >>]
       ELSE [guildId |-> guildId, outcome |-> "invoke", checked |-> FALSE,
             logs |-> << LogLine("info", "Running", extensionId) >>]

\* WrapEnter testing the resolved id with == null, so that undefined passes as global
WrapEnterNoDrop(extensionId, eventName, args) ==
    LET guildId == ResolveGuildId(eventName, args)
    IN IF ~Nullish(guildId) /\ ~isEnabled(extensionId, guildId)
       THEN [guildId |-> guildId, outcome |-> "disabled", checked |-> TRUE,
             logs |-> << LogLine("debug", "Extension isn't enabled in this guild", "") >>]
       ELSE [guildId |-> guildId, outcome |-> "invoke", checked |-> ~Nullish(guildId),
             logs |-> << LogLine("info", "Running", extensionId) >>]

\* WrapEnter checking enablement for a null community too
WrapEnterAlwaysCheck(extensionId, eventName, args) ==
    LET guildId == ResolveGuildId(eventName, args)
    IN IF guildId = Undefined
       THEN [guildId |-> guildId, outcome |-> "dropped", checked |-> FALSE,
             logs |-> << LogLine("error", "Invalid event or failed to fetch guild", "") >>]
       ELSE IF ~isEnabled(extensionId, guildId)
       THEN [guildId |-> guildId, outcome |-> "disabled", checked |-> TRUE,
             logs |-> << LogLine("debug", "Extension isn't enabled in this guild", "") >>]
       ELSE [guildId |-> guildId, outcome |-> "invoke", checked |-> TRUE,
             logs |-> << LogLine("info", "Running", extensionId) >>]

\* The wrapped handler from its call to the point where it invokes the handler:
\* resolve the guild, drop the event, or check enablement.
WrapEnter(extensionId, eventName, args) ==
    LET guildId == ResolveGuildId(eventName, args)
    IN IF guildId = Undefined
       THEN [guildId |-> guildId, outcome |-> "dropped", checked |-> FALSE,
             logs |-> << LogLine("error", "Invalid event or failed to fetch guild", "") >>]
       ELSE IF guildId # Null /\ ~isEnabled(extensionId, guildId)
       THEN [guildId |-> guildId, outcome |-> "disabled", checked |-> TRUE,
             logs |-> << LogLine("debug", "Extension isn't enabled in this guild", "") >>]
       ELSE [guildId |-> guildId, outcome |-> "invoke", checked |-> guildId # Null,
             logs |-> << LogLine("info", "Running", extensionId) >>]

\* the handler called with its arguments in reverse order
HandlerArgsReversed(args) == [n \in 1..Len(args) |-> args[Len(args) + 1 - n]]

\* handler(...args): the arguments of the wrapped handler, as they came
HandlerArgs(args) == args

\* the handler called before the try block
HandlerCallOutsideTry == [inTry |-> FALSE, awaited |-> TRUE]

\* return handler(...args), without await: the wrapped handler does not wait
HandlerCallNotAwaited == [inTry |-> TRUE, awaited |-> FALSE]

\* try { return await handler(...args) }: the handler is called inside the try block
\* and the wrapped handler waits for it to settle
HandlerCall == [inTry |-> TRUE, awaited |-> TRUE]

\* a catch block that logs and rethrows
CatchHandlerRethrow(extensionId, bail) ==
    [settle |-> "rejected", value |-> Undefined,
     logs |-> << LogLine("error", "Extension error", extensionId),
                 LogLine("error", "exception", "") >>]

\* a catch block that swallows only when bail is set: if (bail) return; throw e;
CatchHandlerBailOnly(extensionId, bail) ==
    [settle |-> IF bail THEN "resolved" ELSE "rejected", value |-> Undefined,
     logs |-> << LogLine("error", "Extension error", extensionId),
                 LogLine("error", "exception", "") >>]

\* a catch block that tests bail before it logs: if (bail) return; logger.error(...)
CatchHandlerBailQuiet(extensionId, bail) ==
    [settle |-> "resolved", value |-> Undefined,
     logs |-> IF bail THEN << >>
              ELSE << LogLine("error", "Extension error", extensionId),
                      LogLine("error", "exception", "") >>]

\* catch (e) { logger.error(...); logger.error(e); if (bail) return; }
CatchHandler(extensionId, bail) ==
    [settle |-> "resolved", value |-> Undefined,
     logs |-> << LogLine("error", "Extension error", extensionId),
                 LogLine("error", "exception", "") >>]

\* How the wrapped handler settles once the handler it waits for has settled.
WrapSettle(extensionId, bail, handlerOutcome) ==
    IF handlerOutcome = "return"
    THEN [settle |-> "resolved", value |-> "result", logs |-> << >>]
    ELSE IF HandlerCall.inTry
    THEN CatchHandler(extensionId, bail)
    ELSE [settle |-> "rejected", value |-> Undefined, logs |-> << >>]

\* One whole call of the closure wrapHandler(extensionId, eventName, handler, bail)
\* returns, for a handler that ends as handlerOutcome: the handler invocations,
\* the lines logged, how the returned promise settles and with what value.
WrappedRun(extensionId, eventName, args, bail, handlerOutcome) ==
    LET r == WrapEnter(extensionId, eventName, args)
        s == WrapSettle(extensionId, bail, handlerOutcome)
    IN IF r.outcome = "invoke"
       THEN [calls |-> 1, logs |-> r.logs \o s.logs, settle |-> s.settle, value |-> s.value]
       ELSE [calls |-> 0, logs |-> r.logs, settle |-> "resolved", value |-> Undefined]

-----------------------------------------------------------------------------
(* The host's registration point and its dispatch of one occurrence.       *)

MaxListeners == 2

DispatchEvents == {"messageCreate", "shardDisconnect", "userUpdate"}

\* the well-formed arguments the platform client delivers for an event
EventArgs(eventName) ==
    CASE eventName = "messageCreate" ->
            {<<GuildData(g)>> : g \in Guilds} \cup {<<UncachedData(g)>> : g \in Guilds}
                \cup {<<DMData>>}
      [] eventName = "shardDisconnect" -> {<<NoData, Data(Null, Null, "shard", FALSE)>>}
      [] eventName = "userUpdate" -> {<<NoData, Data(Null, Null, "user", FALSE)>>}

addEventListener(list, listener) == Append(list, listener)

\* the host's listeners of one event, in subscription order
EventListeners(eventName) == SelectSeq(listeners, LAMBDA l : l.event = eventName)

NoOcc == [event |-> "none"]

\* loadEventClass subscribing the wrapped handler twice
loadEventClassTwice(extensionId, eventName) ==
    /\ Len(listeners) + 1 < MaxListeners
    /\ listeners' = addEventListener(
                        addEventListener(listeners, wrapHandler(extensionId, eventName, FALSE)),
                        wrapHandler(extensionId, eventName, FALSE))
    /\ UNCHANGED <<pipelineVars, loaderVars, auxVars, extensions, activation, hookLog, config, systemConfig, occ,
                   threwLast, hostErrors>>

\* loading one event class: new Event(application), then one addEventListener of
\* its wrapped execute under its event name
loadEventClass(extensionId, eventName) ==
    /\ Len(listeners) < MaxListeners
    /\ listeners' = addEventListener(listeners, wrapHandler(extensionId, eventName, FALSE))
    /\ UNCHANGED <<pipelineVars, loaderVars, auxVars, extensions, activation, hookLog, config, systemConfig, occ,
                   threwLast, hostErrors>>

\* the host starts dispatching one occurrence of eventName; it dispatches one
\* occurrence at a time
EmitEvent(eventName, args) ==
    /\ occ = NoOcc
    /\ occ' = [event |-> eventName, args |-> args, idx |-> 0, waiting |-> FALSE,
               active |-> {}, log |-> << >>]
    /\ UNCHANGED <<pipelineVars, loaderVars, auxVars, extensions, activation, hookLog, listeners, config, systemConfig,
                   threwLast, hostErrors>>

\* the host calls the next wrapped handler of the occurrence, which runs up to its
\* first suspension
HostReady ==
    /\ occ # NoOcc
    /\ ~occ.waiting
    /\ occ.idx < Len(EventListeners(occ.event))

CallWrapped ==
    /\ HostReady
    /\ LET i == occ.idx + 1
           l == EventListeners(occ.event)[i]
           r == WrapEnter(l.ext, l.event, occ.args)
           invoke == r.outcome = "invoke"
           pending == invoke /\ HandlerCall.awaited
           entry == [ext |-> l.ext, guildId |-> r.guildId, checked |-> r.checked,
                     out |-> IF invoke THEN "running" ELSE r.outcome,
                     calls |-> IF invoke THEN 1 ELSE 0,
                     passed |-> IF invoke THEN HandlerArgs(occ.args) ELSE << >>,
                     settle |-> IF pending THEN "pending" ELSE "resolved",
                     value |-> Undefined, logs |-> r.logs]
       IN occ' = [occ EXCEPT !.idx = i, !.waiting = pending,
                             !.active = IF invoke THEN @ \cup {i} ELSE @,
                             !.log = Append(@, entry)]
    /\ UNCHANGED <<pipelineVars, loaderVars, auxVars, extensions, activation, hookLog, listeners, config, systemConfig,
                   threwLast, hostErrors>>

Threw(log) == {log[i].ext : i \in {j \in DOMAIN log : log[j].out = "threw"}}

\* a running handler returns or throws; the wrapped handler waiting for it settles and
\* the host's await of it ends
HandlerSettle(i, handlerOutcome) ==
    /\ occ # NoOcc
    /\ i \in occ.active
    /\ LET old == occ.log[i]
           out == IF handlerOutcome = "return" THEN "returned" ELSE "threw"
           s == WrapSettle(old.ext, EventListeners(occ.event)[i].bail, handlerOutcome)
           entry == IF old.settle = "pending"
                    THEN [old EXCEPT !.out = out, !.settle = s.settle, !.value = s.value,
                                     !.logs = @ \o s.logs]
                    ELSE [old EXCEPT !.out = out]
           log == [occ.log EXCEPT ![i] = entry]
           rejected == old.settle = "pending" /\ s.settle = "rejected"
           unhandled == old.settle # "pending" /\ handlerOutcome = "throw"
       IN /\ IF rejected
             THEN /\ occ' = NoOcc
                  /\ threwLast' = Threw(log)
             ELSE /\ occ' = [occ EXCEPT !.active = @ \ {i}, !.log = log,
                                        !.waiting = IF old.settle = "pending" THEN FALSE ELSE @]
                  /\ UNCHANGED threwLast
          /\ hostErrors' = (hostErrors \/ rejected \/ unhandled)
    /\ UNCHANGED <<pipelineVars, loaderVars, auxVars, extensions, activation, hookLog, listeners, config, systemConfig>>

\* every listener of the occurrence has been called and has settled
EmitDone ==
    /\ occ # NoOcc
    /\ ~occ.waiting
    /\ occ.active = {}
    /\ occ.idx = Len(EventListeners(occ.event))
    /\ occ' = NoOcc
    /\ threwLast' = Threw(occ.log)
    /\ UNCHANGED <<pipelineVars, loaderVars, auxVars, extensions, activation, hookLog, listeners, config, systemConfig,
                   hostErrors>>

\* the registries the loader can leave: the installed extensions in any order
Registries ==
    {<< >>} \cup {<<e>> : e \in ExtIds}
        \cup {s \in ExtIds \X ExtIds : s[1] # s[2]}

-----------------------------------------------------------------------------
(* The loader: boot() and loadExtensions() over the extensions directory.  *)

\* entries the directory listing can hold
MaxEntries == 3

\* the names of the entries, in the order readdir lists them
DirNames == <<"extA", "extB", "extC", "extD">>

\* what an entry can be: a plain file, the build cache ".extbuilds", or an
\* extension directory without a manifest, with a manifest that is not JSON,
\* with a manifest the schema rejects, with a valid manifest and an entry
\* module that loads, or with a valid manifest and an entry module that fails
\* to load
EntryKinds == {"file", "extbuilds", "noManifest", "unparseable", "invalid", "valid", "broken"}

\* !isDirectory || extensionName === ".extbuilds"
NotCandidate(kind) == kind \in {"file", "extbuilds"}

LoaderLog(level, text, name) == [level |-> level, text |-> text, name |-> name]

\* a missing manifest skipped like a non-directory
OnMissingManifestSkip(name) ==
    [do |-> "continue", code |-> 0,
     logs |-> <<LoaderLog("error", "does not have a extension.json file", name)>>]

\* !existsSync(metadataFile): logger.error(...); process.exit(-1)
OnMissingManifest(name) ==
    [do |-> "exit", code |-> -1,
     logs |-> <<LoaderLog("error", "does not have a extension.json file", name)>>]

\* an unparseable manifest treated like one the schema rejects
OnUnparseableManifestSkip(name) ==
    [do |-> "continue", code |-> 0,
     logs |-> <<LoaderLog("error", "Error parsing extension metadata", name)>>]

\* JSON.parse(await fs.readFile(metadataFile)) throws: nothing in
\* loadExtensions catches it
OnUnparseableManifest(name) == [do |-> "throw", code |-> 0, logs |-> << >>]

\* a manifest the schema rejects, loaded all the same
OnInvalidManifestLoad(name) ==
    [do |-> "push", code |-> 0,
     logs |-> <<LoaderLog("error", "Error parsing extension metadata", name),
                LoaderLog("error", "parseResult.error", name)>>]

\* !parseResult.success: two logger.error calls, then continue
OnInvalidManifest(name) ==
    [do |-> "continue", code |-> 0,
     logs |-> <<LoaderLog("error", "Error parsing extension metadata", name),
                LoaderLog("error", "parseResult.error", name)>>]

\* loadExtensionInitializer: await import(extensionPath) and new ExtensionClass(...)
OnManifest(name, loads) ==
    IF loads
    THEN [do |-> "push", code |-> 0, logs |-> <<LoaderLog("info", "Loaded extension", name)>>]
    ELSE [do |-> "throw", code |-> 0, logs |-> << >>]

\* this.extensions.unshift(initializer)
pushExtensionFront(registry, id) == <<id>> \o registry

\* this.extensions.push(initializer)
pushExtension(registry, id) == Append(registry, id)

\* one iteration of the for loop of loadExtensions, for an entry of a kind
LoadEntry(kind, name) ==
    CASE NotCandidate(kind) -> [do |-> "continue", code |-> 0, logs |-> << >>]
      [] kind = "noManifest" -> OnMissingManifest(name)
      [] kind = "unparseable" -> OnUnparseableManifest(name)
      [] kind = "invalid" -> OnInvalidManifest(name)
      [] kind = "valid" -> OnManifest(name, TRUE)
      [] OTHER -> OnManifest(name, FALSE)

LoaderAt(status) ==
    [status |-> status, i |-> 0, exitCode |-> 0, log |-> << >>, configBoots |-> 0,
     registered |-> FALSE]

\* initializeConfigService that does not boot the configuration service
initializeConfigServiceSkipped(l) == l

\* initializeConfigService(): ConfigurationManager.manualBoot() is called
initializeConfigService(l) == [l EXCEPT !.configBoots = @ + 1]

\* onInitializationComplete(): registerExtensionConfig(this.extensions) is
\* awaited, then the configuration service is booted
onInitializationComplete(l) == initializeConfigService([l EXCEPT !.registered = TRUE])

\* no stream is written to, no resolver map is being built, no message is
\* being processed
AuxIdle ==
    /\ response = [status |-> "idle"]
    /\ build = [status |-> "idle"]
    /\ rules = [status |-> "idle"]

\* the loader has run and its listing is not kept; the rest is idle
LoaderDone ==
    /\ directory = [exists |-> TRUE, entries |-> << >>]
    /\ loader = LoaderAt("loaded")
    /\ AuxIdle

\* boot(): without a configured, existing extensions directory the
\* configuration service is booted and nothing is loaded; otherwise
\* loadExtensions reads the directory
Boot ==
    /\ loader.status = "idle"
    /\ IF extensionsPath = Null \/ ~directory.exists
       THEN loader' = initializeConfigService(
                           [loader EXCEPT !.status = "booted",
                               !.log = Append(@, LoaderLog("debug", "No extensions found", ""))])
       ELSE loader' = [loader EXCEPT !.status = "loading"]
    /\ UNCHANGED <<runtimeVars, pipelineVars, directory, auxVars>>

\* loadExtensions takes the next entry of the listing
LoadNext ==
    /\ loader.status = "loading"
    /\ loader.i < Len(directory.entries)
    /\ LET i == loader.i + 1
           r == LoadEntry(directory.entries[i], DirNames[i])
       IN /\ loader' = [loader EXCEPT
                 !.i = i,
                 !.log = @ \o r.logs,
                 !.exitCode = r.code,
                 !.status = CASE r.do = "exit" -> "exited"
                              [] r.do = "throw" -> "threw"
                              [] OTHER -> @]
          /\ extensions' = IF r.do = "push" THEN pushExtension(extensions, DirNames[i])
                           ELSE extensions
    /\ UNCHANGED <<activation, hookLog, listeners, config, systemConfig, occ, threwLast,
                   hostErrors, pipelineVars, directory, auxVars>>

\* the listing is exhausted: onInitializationComplete registers the
\* extensions' configuration and boots the configuration service
LoadDone ==
    /\ loader.status = "loading"
    /\ loader.i = Len(directory.entries)
    /\ loader' = onInitializationComplete([loader EXCEPT !.status = "loaded"])
    /\ UNCHANGED <<runtimeVars, pipelineVars, directory, auxVars>>

\* the status a process ends with when its startup rejects
StartupFailureCode == 1

\* boot() has rejected: the startup of the process fails and it exits
BootRejected ==
    /\ loader.status = "threw"
    /\ loader' = [loader EXCEPT !.status = "exited", !.exitCode = StartupFailureCode]
    /\ UNCHANGED <<runtimeVars, pipelineVars, directory, auxVars>>

\* the listings the loader can find
Listings == [1..MaxEntries -> EntryKinds]

-----------------------------------------------------------------------------
(* The catalog metadata client: fetchExtensionMetadata() behind cache(),   *)
(* read through getExtensionMetadata(id).                                  *)

\* the catalog lists one extension; "ghost" is an id it does not list
CatalogIds == {"welcomer"}
LookupIds == {"welcomer", "ghost"}

\* how a catalog request can end
RequestOutcomes == {"ok200", "status204", "status500", "transportError"}

\* request(): the pair [response, error] of one HTTP exchange.  A status of
\* the 2xx class comes back as a response, any other status and a transport
\* failure as an error without a response.
request(outcome) ==
    CASE outcome = "ok200" ->
             [hasResponse |-> TRUE, status |-> 200, data |-> "catalog", error |-> Null]
      [] outcome = "status204" ->
             [hasResponse |-> TRUE, status |-> 204, data |-> Null, error |-> Null]
      [] outcome = "status500" ->
             [hasResponse |-> FALSE, status |-> 500, data |-> Null, error |-> "AxiosError"]
      [] OTHER ->
             [hasResponse |-> FALSE, status |-> 0, data |-> Null, error |-> "NetworkError"]

\* fetchExtensionMetadata: [response.data, null], or [null, error] with the
\* error of the request, whatever it is
fetchExtensionMetadata(r) ==
    IF r.error # Null \/ ~r.hasResponse \/ r.status # 200
    THEN [data |-> Null, error |-> r.error]
    ELSE [data |-> r.data, error |-> Null]

\* the time-to-live of the catalog in the cache, in milliseconds
CatalogTtl == 120000

\* cache options with half the time-to-live
CacheOptionsShortTtl == [ttl |-> CatalogTtl \div 2, invoke |-> TRUE]

\* the options getExtensionMetadata passes to cache()
CacheOptions == [ttl |-> CatalogTtl, invoke |-> TRUE]

\* a cache key per extension id
CacheKeyPerId(id) == id

\* the cache key getExtensionMetadata uses: one for the whole catalog
CacheKey(id) == "extension-index"

CacheKeys == {"extension-index"} \cup LookupIds

\* the last line of getExtensionMetadata: error ? [null, error] : [data?.[id], null]
getExtensionMetadataResult(cached, id) ==
    IF cached.error # Null
    THEN [value |-> Null, error |-> cached.error]
    ELSE [value |-> IF cached.data # Null /\ id \in CatalogIds THEN id ELSE Undefined,
          error |-> Null]

NoValue == [data |-> Null, error |-> Null]
NoResult == [value |-> Undefined, error |-> Null]
NoEntry == [state |-> "empty", fetch |-> 0, at |-> 0, value |-> NoValue]
IdleCall == [state |-> "idle", id |-> "none", at |-> 0, fetch |-> 0, age |-> -1,
             issued |-> FALSE, waited |-> FALSE, result |-> NoResult]

\* the clock advances in steps of half the time-to-live, MaxTicks times
MaxTicks == 4
TickMs == CatalogTtl \div 2

\* the number of catalog requests a behaviour issues
MaxFetches == 3

\* cache(): an entry is served until its time-to-live has run out
Fresh(entry) == entry.state = "stored" /\ now - entry.at < CacheOptions.ttl

\* cache(): what a call finds under its key
CacheLookup(entry) ==
    IF Fresh(entry) THEN "hit"
    ELSE IF entry.state = "pending" THEN "join"
    ELSE "miss"

\* getExtensionMetadata(id) by caller c, up to its await of cache(): a fresh
\* entry answers at once, a fetch in flight is joined, and otherwise
\* fetchExtensionMetadata is invoked and its request goes out
getExtensionMetadata(c, id) ==
    LET key == CacheKey(id)
        entry == cache[key]
        call == [IdleCall EXCEPT !.state = "waiting", !.id = id, !.at = now,
                     !.age = IF entry.state = "stored" THEN now - entry.at ELSE -1]
        n == Len(fetches) + 1
    IN /\ calls[c].state = "idle"
       /\ IF CacheLookup(entry) = "hit"
          THEN /\ calls' = [calls EXCEPT ![c] =
                     [call EXCEPT !.state = "done", !.fetch = entry.fetch,
                          !.result = getExtensionMetadataResult(entry.value, id)]]
               /\ UNCHANGED <<cache, fetches>>
          ELSE IF CacheLookup(entry) = "join"
          THEN /\ calls' = [calls EXCEPT ![c] =
                     [call EXCEPT !.fetch = entry.fetch, !.waited = TRUE]]
               /\ UNCHANGED <<cache, fetches>>
          ELSE /\ n <= MaxFetches
               /\ fetches' = Append(fetches,
                     [key |-> key, at |-> now, state |-> "pending", outcome |-> "pending"])
               /\ cache' = [cache EXCEPT ![key] =
                     [state |-> "pending", fetch |-> n, at |-> now, value |-> NoValue]]
               /\ calls' = [calls EXCEPT ![c] =
                     [call EXCEPT !.fetch = n, !.issued = TRUE, !.waited = TRUE]]

\* a direct caller (a command listing or describing extensions) looks an id up
LookupCall(c, id) ==
    /\ getExtensionMetadata(c, id)
    /\ UNCHANGED <<runtimeVars, loaderVars, auxVars, now, extensionsPath, stream, inst, files>>

\* catalog request n ends: fetchExtensionMetadata returns, cache() stores what
\* it returned, and every caller awaiting it resumes with its own entry
RequestSettle(n, outcome) ==
    /\ n \in DOMAIN fetches
    /\ fetches[n].state = "pending"
    /\ LET value == fetchExtensionMetadata(request(outcome))
           key == fetches[n].key
       IN /\ fetches' = [fetches EXCEPT ![n].state = "settled", ![n].outcome = outcome]
          /\ cache' = [cache EXCEPT ![key] =
                [state |-> "stored", fetch |-> n, at |-> now, value |-> value]]
          /\ calls' = [c \in DOMAIN calls |->
                IF calls[c].state = "waiting" /\ calls[c].fetch = n
                THEN [calls[c] EXCEPT !.state = "done",
                         !.result = getExtensionMetadataResult(value, calls[c].id)]
                ELSE calls[c]]
    /\ UNCHANGED <<runtimeVars, loaderVars, auxVars, now, extensionsPath, stream, inst, files>>

\* a direct caller takes its result and is free to look up again
LookupReturn(c) ==
    /\ calls[c].state = "done"
    /\ c \notin DOMAIN inst
    /\ calls' = [calls EXCEPT ![c] = IdleCall]
    /\ UNCHANGED <<runtimeVars, loaderVars, auxVars, cache, now, fetches, extensionsPath, stream, inst, files>>

\* time passes
Tick ==
    /\ now < MaxTicks * TickMs
    /\ now' = now + TickMs
    /\ UNCHANGED <<runtimeVars, loaderVars, auxVars, cache, calls, fetches, extensionsPath, stream, inst, files>>

EmptyFunction == [k \in {} |-> TRUE]
NoFiles == [tarball |-> "absent", tmpDir |-> "absent", dest |-> "absent"]

\* nothing is looked up and nothing is installed
PipelineIdle ==
    /\ cache = [k \in CacheKeys |-> NoEntry]
    /\ now = 0
    /\ calls = EmptyFunction
    /\ fetches = << >>
    /\ extensionsPath = Null
    /\ stream = << >>
    /\ inst = EmptyFunction
    /\ files = NoFiles

RuntimeIdle ==
    /\ extensions = << >>
    /\ activation = [i |-> 0, waiting |-> FALSE, registering |-> {}, status |-> "idle"]
    /\ hookLog = << >>
    /\ listeners = << >>
    /\ config = EmptyObject
    /\ systemConfig = EmptyObject
    /\ occ = NoOcc
    /\ threwLast = {}
    /\ hostErrors = FALSE

LookupCallers == {"c1", "c2"}

InitMetadata ==
    /\ RuntimeIdle
    /\ LoaderDone
    /\ cache = [k \in CacheKeys |-> NoEntry]
    /\ now = 0
    /\ calls = [c \in LookupCallers |-> IdleCall]
    /\ fetches = << >>
    /\ extensionsPath = Null
    /\ stream = << >>
    /\ inst = EmptyFunction
    /\ files = NoFiles

NextMetadata ==
    \/ \E c \in DOMAIN calls, id \in LookupIds : LookupCall(c, id)
    \/ \E n \in 1..MaxFetches, o \in RequestOutcomes : RequestSettle(n, o)
    \/ \E c \in DOMAIN calls : LookupReturn(c)
    \/ Tick

SpecMetadata == InitMetadata /\ [][NextMetadata]_vars

-----------------------------------------------------------------------------
(* The install pipeline: fetchAndInstallExtension(id, stream) and          *)
(* installExtension(filePath, extension, stream).  What is written to the  *)
(* stream is kept chunk by chunk: a status line, an "E:" line, a "W:"      *)
(* line, a percentage line, the "%" sentinel, or the "\n" that ends it.    *)

Chunk(kind, text) == [kind |-> kind, text |-> text, pct |-> 0]
Status(text) == Chunk("status", text)
Fatal(text) == Chunk("E", text)
Advisory(text) == Chunk("W", text)
\* downloadProgressStreamEOF
Sentinel == Chunk("sentinel", "%")
Newline == Chunk("nl", "")
Percent(n) == [kind |-> "pct", text |-> "", pct |-> n]

\* writeStream(stream, data) for each chunk in turn: nothing without a stream
writeStream(p, chunks) == IF inst[p].sink THEN stream[p] \o chunks ELSE stream[p]

\* the guard of fetchAndInstallExtension, never taken
DirectoryUnsetNever(path) == FALSE

\* the guard of fetchAndInstallExtension: !this.extensionsPath
DirectoryUnset(path) == path = Null

\* the first branch of fetchAndInstallExtension
UnsetDirectoryLines == <<Fatal("Extensions directory is not set")>>

\* the metadata failure branch
MetadataFailureLines == <<Fatal("Failed to fetch metadata of extension")>>

\* what is written before the download starts
RetrievingLines == <<Status("Retrieving"), Sentinel, Newline>>

\* the progress callback: Math.floor((loaded / total) * 100), nothing when the
\* total is unknown
onDownloadProgress(loaded, total) ==
    IF total = 0 THEN << >> ELSE <<Percent((loaded * 100) \div total)>>

\* what is written once downloadFile has returned
DownloadedLines == <<Sentinel, Newline>>

\* the outer catch, writing the error line alone
DownloadCatchNoSentinel ==
    [log |-> TRUE, lines |-> <<Fatal("Failed to retrieve extension")>>]

\* the outer catch, with the error line before the closing sentinel
DownloadCatchErrorFirst ==
    [log |-> TRUE,
     lines |-> <<Fatal("Failed to retrieve extension"), Sentinel, Newline>>]

\* the outer catch of fetchAndInstallExtension
DownloadCatch ==
    [log |-> TRUE,
     lines |-> <<Sentinel, Newline, Fatal("Failed to retrieve extension")>>]

\* the catch around tar.x, falling through to the set-up
UnpackCatchNoReturn ==
    [log |-> TRUE, lines |-> <<Fatal("Unable to unpack extension")>>, returns |-> FALSE]

\* the catch around tar.x
UnpackCatch ==
    [log |-> TRUE, lines |-> <<Fatal("Unable to unpack extension")>>, returns |-> TRUE]

\* the catch around fs.rename, falling through to the clean-up
RenameCatchNoReturn ==
    [log |-> TRUE, lines |-> <<Fatal("Failed to set up extension")>>, returns |-> FALSE]

\* the catch around fs.rename, saying nothing
RenameCatchSilent ==
    [log |-> FALSE, lines |-> << >>, returns |-> TRUE]

\* the catch around fs.rename
RenameCatch ==
    [log |-> TRUE, lines |-> <<Fatal("Failed to set up extension")>>, returns |-> TRUE]

\* the catch around rm of the temporary directory, reporting a fatal error
RmTmpCatchFatal ==
    [log |-> TRUE, lines |-> <<Fatal("Failed to clean up temporary files")>>]

\* the catch around rm of the temporary directory
RmTmpCatch ==
    [log |-> TRUE, lines |-> <<Advisory("Failed to clean up temporary files")>>]

\* the catch around rm of the tarball
RmTarballCatch ==
    [log |-> TRUE, lines |-> <<Advisory("Failed to clean download caches")>>]

\* fetchAndInstallExtension returning once installExtension has
AfterInstallExtensionReturn == "done"

\* what fetchAndInstallExtension does once installExtension has returned:
\* rm(filePath)
AfterInstallExtension == "rmTarball"

\* fs.rename of a directory, as rename(2): an absent destination is created, an
\* empty directory is replaced, a directory with content makes it fail
renameAllowed(dest) == dest \in {"absent", "empty"}

\* progress events per download
MaxProgress == 2
\* the sizes a progress event reports: total 0 is an unknown total
ProgressTotal == 3
ProgressEvents == {<<1, 0>>, <<1, ProgressTotal>>, <<ProgressTotal, ProgressTotal>>}

NoReturn == [returned |-> FALSE, tuple |-> FALSE, value |-> Undefined, error |-> Undefined]
\* a return of [null, null] where the function returns nothing
ReturnNothingAsPair == [returned |-> TRUE, tuple |-> TRUE, value |-> Null, error |-> Null]
ReturnNothing == [returned |-> TRUE, tuple |-> FALSE, value |-> Undefined, error |-> Undefined]
ReturnPair(value, error) ==
    [returned |-> TRUE, tuple |-> TRUE, value |-> value, error |-> error]

\* an invocation not yet made: the id it is for, and whether it has a stream
NewInvocation(id, sink) ==
    [id |-> id, sink |-> sink, pc |-> "start", steps |-> << >>, logged |-> << >>,
     progress |-> 0, result |-> NoReturn]

\* the operations the pipeline starts, each with the number of chunks written
\* before it, what it found at the destination, and how it ended
Begun(ops, wrote) ==
    [i \in 1..Len(ops) |->
        [op |-> ops[i], wrote |-> wrote, found |-> files.dest, outcome |-> "pending"]]

\* invocation p goes on: its last operation ends with `outcome`, `chunks` are
\* written, the error is handed to logger.error if `log`, the operations `ops`
\* start, and it continues at `pc` (returning `result` if that is the end)
Continue(p, outcome, chunks, log, ops, pc, result) ==
    LET written == writeStream(p, chunks)
        last == Len(inst[p].steps)
        settled == IF outcome = "none" THEN inst[p].steps
                   ELSE [inst[p].steps EXCEPT ![last].outcome = outcome]
    IN /\ stream' = [stream EXCEPT ![p] = written]
       /\ inst' = [inst EXCEPT ![p].steps = settled \o Begun(ops, Len(written)),
                               ![p].logged = IF log THEN Append(@, inst[p].steps[last].op)
                                             ELSE @,
                               ![p].pc = pc,
                               ![p].result = IF pc = "done" THEN result ELSE @]

\* an install admitted only while no other invocation is in flight
InstallAdmittedExclusive(p) ==
    \A q \in DOMAIN inst \ {p} : inst[q].pc \in {"start", "done"}

\* what fetchAndInstallExtension checks about other invocations before it
\* runs: nothing; it keeps no lock and no table of installs in flight
InstallAdmitted(p) == TRUE

\* fetchAndInstallExtension(id, stream) is called: without an extensions
\* directory it reports and returns; otherwise it announces the lookup and
\* calls getExtensionMetadata
InstallStart(p) ==
    /\ inst[p].pc = "start"
    /\ InstallAdmitted(p)
    /\ IF DirectoryUnset(extensionsPath)
       THEN /\ Continue(p, "none", UnsetDirectoryLines, FALSE, << >>, "done",
                        ReturnPair(Null, "E: Extensions directory is not set"))
            /\ UNCHANGED <<cache, calls, fetches>>
       ELSE /\ Continue(p, "none", <<Status("Fetching metadata")>>, FALSE,
                        <<"metadata">>, "metadata", NoReturn)
            /\ getExtensionMetadata(p, inst[p].id)
    /\ UNCHANGED <<runtimeVars, loaderVars, auxVars, now, extensionsPath, files>>

\* the test of the lookup, on the error alone
MetadataFailedErrorOnly(extension, metadataError) == metadataError # Null

\* the test of the lookup: metadataError || !extension
MetadataFailed(extension, metadataError) == metadataError # Null \/ Nullish(extension)

\* getExtensionMetadata has returned [extension, metadataError]: a failure or a
\* missing entry is reported and returned; otherwise the download starts
InstallMetadataReturn(p) ==
    /\ inst[p].pc = "metadata"
    /\ calls[p].state = "done"
    /\ LET extension == calls[p].result.value
           metadataError == calls[p].result.error
       IN IF MetadataFailed(extension, metadataError)
          THEN Continue(p, "fail", MetadataFailureLines, FALSE, << >>, "done",
                        ReturnPair(Null, metadataError))
          ELSE Continue(p, "ok", RetrievingLines, FALSE, <<"download">>, "download",
                        NoReturn)
    /\ UNCHANGED <<runtimeVars, loaderVars, auxVars, cache, now, calls, fetches, extensionsPath, files>>

\* downloadFile reports progress
DownloadProgress(p, loaded, total) ==
    /\ inst[p].pc = "download"
    /\ inst[p].progress < MaxProgress
    /\ stream' = [stream EXCEPT ![p] = writeStream(p, onDownloadProgress(loaded, total))]
    /\ inst' = [inst EXCEPT ![p].progress = @ + 1]
    /\ UNCHANGED <<runtimeVars, loaderVars, auxVars, cache, now, calls, fetches, extensionsPath, files>>

\* downloadFile ends.  After a download the progress stream is closed and
\* installExtension runs up to tar.x, creating the temporary directory; a
\* failure, which may leave part of the tarball, goes to the outer catch.
DownloadSettle(p, outcome) ==
    /\ inst[p].pc = "download"
    /\ IF outcome = "ok"
       THEN /\ Continue(p, "ok",
                        DownloadedLines \o <<Status("Preparing to unpack"), Status("Unpacking")>>,
                        FALSE, <<"extract">>, "extract", NoReturn)
            /\ files' = [files EXCEPT !.tarball = "present",
                                      !.tmpDir = IF @ = "absent" THEN "empty" ELSE @]
       ELSE /\ Continue(p, "fail", DownloadCatch.lines, DownloadCatch.log, << >>, "done",
                        ReturnNothing)
            /\ files' = [files EXCEPT !.tarball = IF outcome = "partial" THEN "partial" ELSE @]
    /\ UNCHANGED <<runtimeVars, loaderVars, auxVars, cache, now, calls, fetches, extensionsPath>>

\* installExtension goes on to the set-up: it announces it and calls fs.rename
SetUp(p, outcome, chunks, log) ==
    Continue(p, outcome, chunks \o <<Status("Setting up")>>, log, <<"rename">>, "rename",
             NoReturn)

\* installExtension returns to fetchAndInstallExtension
InstallExtensionReturn(p, outcome, chunks, log) ==
    IF AfterInstallExtension = "rmTarball"
    THEN Continue(p, outcome, chunks, log, <<"rmTarball">>, "rmTarball", NoReturn)
    ELSE Continue(p, outcome, chunks, log, << >>, "done", ReturnNothing)

\* tar.x ends
ExtractSettle(p, outcome) ==
    /\ inst[p].pc = "extract"
    /\ IF outcome = "ok"
       THEN /\ SetUp(p, "ok", << >>, FALSE)
            /\ files' = [files EXCEPT !.tmpDir = "extracted"]
       ELSE /\ IF UnpackCatch.returns
               THEN InstallExtensionReturn(p, "fail", UnpackCatch.lines, UnpackCatch.log)
               ELSE SetUp(p, "fail", UnpackCatch.lines, UnpackCatch.log)
            /\ UNCHANGED files
    /\ UNCHANGED <<runtimeVars, loaderVars, auxVars, cache, now, calls, fetches, extensionsPath>>

\* fs.rename ends: it can succeed only if something was extracted and the
\* destination allows it
RenameSettle(p, outcome) ==
    /\ inst[p].pc = "rename"
    /\ IF outcome = "ok"
       THEN /\ files.tmpDir = "extracted"
            /\ renameAllowed(files.dest)
            /\ Continue(p, "ok", <<Status("Cleaning up")>>, FALSE, <<"rmTmp">>, "rmTmp",
                        NoReturn)
            /\ files' = [files EXCEPT !.tmpDir = "empty", !.dest = "new"]
       ELSE /\ IF RenameCatch.returns
               THEN InstallExtensionReturn(p, "fail", RenameCatch.lines, RenameCatch.log)
               ELSE Continue(p, "fail", RenameCatch.lines \o <<Status("Cleaning up")>>,
                             RenameCatch.log, <<"rmTmp">>, "rmTmp", NoReturn)
            /\ UNCHANGED files
    /\ UNCHANGED <<runtimeVars, loaderVars, auxVars, cache, now, calls, fetches, extensionsPath>>

\* installExtension loading what it has installed into the running process
loadInstalledNow(registry, id) == Append(registry, id)

\* the end of installExtension ("TODO: Load extension automatically"): the
\* registry is left as it is
loadInstalled(registry, id) == registry

\* rm of the temporary directory ends, and installExtension returns
RmTmpSettle(p, outcome) ==
    /\ inst[p].pc = "rmTmp"
    /\ IF outcome = "ok"
       THEN /\ InstallExtensionReturn(p, "ok", << >>, FALSE)
            /\ files' = [files EXCEPT !.tmpDir = "absent"]
       ELSE /\ InstallExtensionReturn(p, "fail", RmTmpCatch.lines, RmTmpCatch.log)
            /\ UNCHANGED files
    /\ extensions' = loadInstalled(extensions, inst[p].id)
    /\ UNCHANGED <<activation, hookLog, listeners, config, systemConfig, occ, threwLast,
                   hostErrors, loaderVars, auxVars, cache, now, calls, fetches, extensionsPath>>

\* rm of the tarball ends, and fetchAndInstallExtension returns
RmTarballSettle(p, outcome) ==
    /\ inst[p].pc = "rmTarball"
    /\ IF outcome = "ok"
       THEN /\ Continue(p, "ok", << >>, FALSE, << >>, "done", ReturnNothing)
            /\ files' = [files EXCEPT !.tarball = "absent"]
       ELSE /\ Continue(p, "fail", RmTarballCatch.lines, RmTarballCatch.log, << >>, "done",
                        ReturnNothing)
            /\ UNCHANGED files
    /\ UNCHANGED <<runtimeVars, loaderVars, auxVars, cache, now, calls, fetches, extensionsPath>>

-----------------------------------------------------------------------------
(* writeStream against a writable stream with a buffer, and the download   *)
(* delivering progress events to the callback that calls it.               *)

\* the stream's highWaterMark, in chunks, and the progress events of a download
HighWaterMark == 2
MaxChunks == 4

\* new Promise(resolve => process.nextTick(resolve)): the promise resolved on
\* the next tick whatever write() returned
WhenWrittenAlwaysTick(ready) == "tick"

\* if (!stream.write(data)) stream.once("drain", resolve);
\* else process.nextTick(resolve);
WhenWritten(ready) == IF ready THEN "tick" ELSE "drain"

\* whether the download holds back the next progress event while the promise
\* returned by the progress callback is pending
DownloadAwaitsProgress == TRUE

\* a download starts, with or without a stream to report to; the stream's
\* buffer holds what other writes left in it
InitResponse ==
    response \in {[status |-> "downloading", open |-> o, buffer |-> b, needDrain |-> FALSE,
                    pending |-> << >>, events |-> 0, completed |-> << >>] :
                       o \in BOOLEAN, b \in {<< >>, <<Newline>>}}

\* the download delivers a progress event; the callback writes the percentage
\* unless the total is unknown: writeStream returns at once without a stream,
\* and otherwise calls stream.write, which buffers the chunk and reports
\* whether the buffer is below the high-water mark
ProgressEvent(loaded, total) ==
    /\ response.status = "downloading"
    /\ response.events < MaxChunks
    /\ DownloadAwaitsProgress => response.pending = << >>
    /\ LET chunks == IF response.open THEN onDownloadProgress(loaded, total) ELSE << >>
           buffer == response.buffer \o chunks
           ready == Len(buffer) < HighWaterMark
       IN response' = [response EXCEPT
              !.events = @ + 1,
              !.buffer = buffer,
              !.needDrain = @ \/ (chunks # << >> /\ ~ready),
              !.pending = IF chunks = << >> THEN @
                          ELSE Append(@, [ready |-> ready, on |-> WhenWritten(ready)])]
    /\ UNCHANGED <<runtimeVars, pipelineVars, loaderVars, build, rules>>

\* the next tick: the promises waiting for it resolve
NextTick ==
    /\ response.status = "downloading"
    /\ \E n \in DOMAIN response.pending : response.pending[n].on = "tick"
    /\ response' = [response EXCEPT
           !.pending = SelectSeq(@, LAMBDA w : w.on # "tick"),
           !.completed = @ \o [n \in 1..Len(SelectSeq(response.pending,
                                                        LAMBDA w : w.on = "tick")) |->
                                  [ready |-> SelectSeq(response.pending,
                                                       LAMBDA w : w.on = "tick")[n].ready,
                                   by |-> "tick"]]]
    /\ UNCHANGED <<runtimeVars, pipelineVars, loaderVars, build, rules>>

\* the consumer takes a chunk from the buffer; when that empties a buffer that
\* had reported itself full, the stream emits 'drain' and the once-listeners
\* resolve their promises
Flush ==
    /\ response.status = "downloading"
    /\ response.buffer # << >>
    /\ LET buffer == Tail(response.buffer)
           drain == buffer = << >> /\ response.needDrain
           drained == SelectSeq(response.pending, LAMBDA w : w.on = "drain")
       IN response' = [response EXCEPT
              !.buffer = buffer,
              !.needDrain = IF drain THEN FALSE ELSE @,
              !.pending = IF drain THEN SelectSeq(@, LAMBDA w : w.on # "drain") ELSE @,
              !.completed = IF drain
                            THEN @ \o [n \in 1..Len(drained) |->
                                          [ready |-> drained[n].ready, by |-> "drain"]]
                            ELSE @]
    /\ UNCHANGED <<runtimeVars, pipelineVars, loaderVars, build, rules>>

\* downloadFile returns once every progress event has been handled
DownloadEnd ==
    /\ response.status = "downloading"
    /\ response.events = MaxChunks
    /\ response.pending = << >>
    /\ response' = [response EXCEPT !.status = "downloaded"]
    /\ UNCHANGED <<runtimeVars, pipelineVars, loaderVars, build, rules>>

Invocations == {"i1"}

\* what can be at the destination before an install: nothing, an empty
\* directory, or an installed extension
Destinations == {"absent", "empty", "old"}

\* the process runs with the extensions the loader found, each subscribed to
\* one event; no event is in dispatch
InitInstall ==
    /\ extensions \in Registries
    /\ activation = [i |-> 0, waiting |-> FALSE, registering |-> {}, status |-> "idle"]
    /\ hookLog = << >>
    /\ listeners = [n \in DOMAIN extensions |->
                       wrapHandler(extensions[n], "messageCreate", FALSE)]
    /\ config = EmptyObject
    /\ systemConfig = EmptyObject
    /\ occ = NoOcc
    /\ threwLast = {}
    /\ hostErrors = FALSE
    /\ LoaderDone
    /\ cache = [k \in CacheKeys |-> NoEntry]
    /\ now = 0
    /\ calls = [p \in Invocations |-> IdleCall]
    /\ fetches = << >>
    /\ extensionsPath \in {Null, "extensions"}
    /\ stream = [p \in Invocations |-> << >>]
    /\ inst \in [Invocations -> {NewInvocation(id, sink) : id \in LookupIds, sink \in BOOLEAN}]
    /\ files \in {[NoFiles EXCEPT !.dest = d] : d \in Destinations}

\* two invocations for the same extension id, the first with a stream, made
\* before either has started, in a process with an extensions directory and
\* nothing installed
InitInstallRace ==
    /\ extensions = << >>
    /\ activation = [i |-> 0, waiting |-> FALSE, registering |-> {}, status |-> "idle"]
    /\ hookLog = << >>
    /\ listeners = << >>
    /\ config = EmptyObject
    /\ systemConfig = EmptyObject
    /\ occ = NoOcc
    /\ threwLast = {}
    /\ hostErrors = FALSE
    /\ LoaderDone
    /\ cache = [k \in CacheKeys |-> NoEntry]
    /\ now = 0
    /\ calls = [p \in {"i1", "i2"} |-> IdleCall]
    /\ fetches = << >>
    /\ extensionsPath = "extensions"
    /\ stream = [p \in {"i1", "i2"} |-> << >>]
    /\ inst = [p \in {"i1", "i2"} |-> NewInvocation("welcomer", p = "i1")]
    /\ files = NoFiles

Outcomes == {"ok", "fail"}

NextInstall ==
    \/ \E p \in DOMAIN inst : InstallStart(p)
    \/ \E n \in 1..MaxFetches, o \in RequestOutcomes : RequestSettle(n, o)
    \/ \E p \in DOMAIN inst : InstallMetadataReturn(p)
    \/ \E p \in DOMAIN inst, e \in ProgressEvents : DownloadProgress(p, e[1], e[2])
    \/ \E p \in DOMAIN inst, o \in Outcomes \cup {"partial"} : DownloadSettle(p, o)
    \/ \E p \in DOMAIN inst, o \in Outcomes : ExtractSettle(p, o)
    \/ \E p \in DOMAIN inst, o \in Outcomes : RenameSettle(p, o)
    \/ \E p \in DOMAIN inst, o \in Outcomes : RmTmpSettle(p, o)
    \/ \E p \in DOMAIN inst, o \in Outcomes : RmTarballSettle(p, o)

SpecInstall == InitInstall /\ [][NextInstall]_vars

SpecInstallRace == InitInstallRace /\ [][NextInstall]_vars

-----------------------------------------------------------------------------
(* Configurations *)

ExtensionConfigs ==
    {EmptyObject}
        \cup {[enabled |-> b] : b \in BOOLEAN}
        \cup {[disabled_extensions |-> s] : s \in SUBSET ExtIds}
        \cup {[enabled |-> b, disabled_extensions |-> s] : b \in BOOLEAN, s \in SUBSET ExtIds}

SystemConfigs ==
    {EmptyObject, [default_mode |-> "enable_all"], [default_mode |-> "disable_all"]}

\* guild g1 has any extension configuration or none; guild g2 has none
GuildConfigs == {EmptyObject} \cup {[g \in {"g1"} |-> c] : c \in ExtensionConfigs}

NoActivation == [i |-> 0, waiting |-> FALSE, registering |-> {}, status |-> "idle"]

\* both extensions are loaded; the platform client has delivered no event yet
InitDispatch ==
    /\ extensions = <<"extA", "extB">>
    /\ activation = NoActivation
    /\ hookLog = << >>
    /\ listeners = << >>
    /\ config \in GuildConfigs
    /\ systemConfig \in SystemConfigs
    /\ occ = NoOcc
    /\ threwLast = {}
    /\ hostErrors = FALSE
    /\ PipelineIdle
    /\ LoaderDone

NextDispatch ==
    \/ \E n \in DOMAIN extensions, k \in DispatchEvents : loadEventClass(extensions[n], k)
    \/ \E k \in DispatchEvents : \E a \in EventArgs(k) : EmitEvent(k, a)
    \/ CallWrapped
    \/ \E i \in 1..MaxListeners, o \in {"return", "throw"} : HandlerSettle(i, o)
    \/ EmitDone

SpecDispatch == InitDispatch /\ [][NextDispatch]_vars

-----------------------------------------------------------------------------
(* Activation: ExtensionManager.postConstruct() over the registry.         *)

HookEntry(hook, extensionId) == [hook |-> hook, ext |-> extensionId]

\* one iteration that starts the registration hook before the post-construction hook
postConstructBodySwapped == [hooks |-> <<"register", "postConstruct">>, awaited |-> TRUE]

\* one iteration that calls extension.register() without await
postConstructBodyNotAwaited == [hooks |-> <<"postConstruct", "register">>, awaited |-> FALSE]

\* the body of the loop, for one extension:
\*   extension.postConstruct(); await extension.register();
postConstructBody == [hooks |-> <<"postConstruct", "register">>, awaited |-> TRUE]

\* the hooks of one iteration up to and including the first one that throws
\* synchronously (postConstruct, when postConstructThrows)
CalledHooks(postConstructThrows) ==
    LET hooks == postConstructBody.hooks
        at == CHOOSE n \in DOMAIN hooks : hooks[n] = "postConstruct"
    IN IF postConstructThrows THEN SubSeq(hooks, 1, at) ELSE hooks

\* the loop takes the next extension of the registry: its hooks are called in the
\* order of the body, and the loop then waits for the registration hook
ActivateNext(postConstructThrows) ==
    /\ activation.status \in {"idle", "running"}
    /\ ~activation.waiting
    /\ activation.i < Len(extensions)
    /\ LET i == activation.i + 1
           called == CalledHooks(postConstructThrows)
           registers == \E n \in DOMAIN called : called[n] = "register"
       IN /\ hookLog' = hookLog \o [n \in DOMAIN called |-> HookEntry(called[n], extensions[i])]
          /\ activation' =
                [i |-> i,
                 waiting |-> ~postConstructThrows /\ postConstructBody.awaited,
                 registering |-> IF registers THEN activation.registering \cup {i}
                                 ELSE activation.registering,
                 status |-> IF postConstructThrows THEN "failed" ELSE "running"]
    /\ UNCHANGED <<pipelineVars, loaderVars, auxVars, extensions, listeners, config, systemConfig, occ, threwLast, hostErrors>>

\* the registration hook of extension i settles; the loop, when it waits for it,
\* goes on or ends with the rejection
RegisterSettle(i, registerOutcome) ==
    /\ i \in activation.registering
    /\ hookLog' = Append(hookLog,
                         HookEntry(IF registerOutcome = "return" THEN "registered"
                                   ELSE "rejected", extensions[i]))
    /\ LET awaited == activation.waiting /\ i = activation.i
       IN activation' =
            [activation EXCEPT
                !.registering = @ \ {i},
                !.waiting = IF awaited THEN FALSE ELSE @,
                !.status = IF awaited /\ registerOutcome = "throw" THEN "failed" ELSE @]
    /\ UNCHANGED <<pipelineVars, loaderVars, auxVars, extensions, listeners, config, systemConfig, occ, threwLast, hostErrors>>

\* the loop has taken every extension
ActivationDone ==
    /\ activation.status \in {"idle", "running"}
    /\ ~activation.waiting
    /\ activation.i = Len(extensions)
    /\ activation' = [activation EXCEPT !.status = "done"]
    /\ UNCHANGED <<pipelineVars, loaderVars, auxVars, extensions, hookLog, listeners, config, systemConfig, occ, threwLast,
                   hostErrors>>

InitActivation ==
    /\ extensions \in Registries
    /\ activation = NoActivation
    /\ hookLog = << >>
    /\ listeners = << >>
    /\ config = EmptyObject
    /\ systemConfig = EmptyObject
    /\ occ = NoOcc
    /\ threwLast = {}
    /\ hostErrors = FALSE
    /\ PipelineIdle
    /\ LoaderDone

\* a registration hook in progress subscribes its extension to events
NextActivation ==
    \/ \E t \in BOOLEAN : ActivateNext(t)
    \/ \E i \in 1..Len(extensions), o \in {"return", "throw"} : RegisterSettle(i, o)
    \/ ActivationDone
    \/ \E i \in activation.registering, k \in DispatchEvents :
          loadEventClass(extensions[i], k)

SpecActivation == InitActivation /\ [][NextActivation]_vars

-----------------------------------------------------------------------------
(* The start of the process: boot(), then postConstruct() once the loader  *)
(* has finished.                                                           *)

Directories ==
    {[exists |-> FALSE, entries |-> << >>]}
        \cup {[exists |-> TRUE, entries |-> l] : l \in Listings}

InitLoader ==
    /\ RuntimeIdle
    /\ cache = [k \in CacheKeys |-> NoEntry]
    /\ now = 0
    /\ calls = EmptyFunction
    /\ fetches = << >>
    /\ extensionsPath \in {Null, "extensions"}
    /\ stream = << >>
    /\ inst = EmptyFunction
    /\ files = NoFiles
    /\ directory \in Directories
    /\ loader = LoaderAt("idle")
    /\ AuxIdle

NextLoader ==
    \/ Boot
    \/ LoadNext
    \/ LoadDone
    \/ BootRejected
    \/ \E t \in BOOLEAN : loader.status = "loaded" /\ ActivateNext(t)
    \/ \E i \in 1..Len(extensions), o \in {"return", "throw"} :
          loader.status = "loaded" /\ RegisterSettle(i, o)
    \/ loader.status = "loaded" /\ ActivationDone

SpecLoader == InitLoader /\ [][NextLoader]_vars

-----------------------------------------------------------------------------
(* MessageRuleService.processMessageRules: the configured rules of a       *)
(* community against one message.                                          *)

\* rules per community
MaxRules == 2

\* the action lists a rule can have
ActionLists ==
    {<< >>, <<"delete">>, <<"mute", "warn">>, <<"verbal_warn", "delete", "warn">>}

\* a rule against the message at hand: its actions, whom of the message's
\* channel, author and author's roles it exempts, and what its check
\* (this[handlers[rule.type]]) does for the message
MessageRules ==
    [actions : ActionLists,
     exempts : {"none", "channel", "user", "role"},
     check : {"match", "nomatch", "throw"}]

RuleLists == UNION {[1..n -> MessageRules] : n \in 0..MaxRules}

\* the for loop over rule.actions with a try around each action: a throw is
\* logged and the next action is taken
ActionCatchPerAction == [returns |-> FALSE, then |-> "next"]

\* try { for (const action of rule.actions) ...; await logMessageRuleAction }
\* catch (e) { logError(e); }  return true;
ActionCatch == [returns |-> TRUE, then |-> "return"]

\* the guards at the head of the loop body, in order: the reason the rule is
\* skipped for the message, or "none"
SkipReason(rule, deletable) ==
    CASE Len(rule.actions) = 0 -> "noActions"
      [] rule.actions = <<"delete">> /\ ~deletable -> "notDeletable"
      [] (\E n \in DOMAIN rule.actions : rule.actions[n] = "mute")
            /\ (\E n \in DOMAIN rule.actions : rule.actions[n] = "warn") -> "muteAndWarn"
      [] rule.exempts = "channel" -> "channel"
      [] rule.exempts = "user" -> "user"
      [] rule.exempts = "role" -> "role"
      [] OTHER -> "none"

\* takeAction: whether the action can throw.  delete is attempted only on a
\* deletable message and its rejection is caught; the others await calls
\* that can reject
CanThrow(action) == action # "delete"

\* processMessageRules(message, rules) is called
InitRules ==
    rules \in {[status |-> "guard", list |-> l, deletable |-> d, i |-> 1, k |-> 0,
                 evaluated |-> << >>, attempted |-> << >>, logged |-> << >>,
                 errors |-> 0, result |-> "none"] :
                    l \in RuleLists, d \in BOOLEAN}

\* the loop takes the next rule and goes through its guards
RuleGuard ==
    /\ rules.status = "guard"
    /\ rules.i <= Len(rules.list)
    /\ IF SkipReason(rules.list[rules.i], rules.deletable) = "none"
       THEN rules' = [rules EXCEPT !.status = "check"]
       ELSE rules' = [rules EXCEPT !.i = @ + 1]
    /\ UNCHANGED <<runtimeVars, pipelineVars, loaderVars, response, build>>

\* await handler.call(this, message, rule): a falsy result goes to the next
\* rule, a throw is logged and goes to the next rule, a truthy result starts
\* the rule's actions
RuleCheck ==
    /\ rules.status = "check"
    /\ LET rule == rules.list[rules.i]
       IN rules' = [rules EXCEPT
              !.evaluated = Append(@, rules.i),
              !.status = IF rule.check = "match" THEN "act" ELSE "guard",
              !.i = IF rule.check = "match" THEN @ ELSE @ + 1,
              !.k = 0,
              !.errors = IF rule.check = "throw" THEN @ + 1 ELSE @]
    /\ UNCHANGED <<runtimeVars, pipelineVars, loaderVars, response, build>>

\* await this.takeAction(message, rule, action) for the next action of the
\* matched rule; it returns or throws
TakeAction(outcome) ==
    /\ rules.status = "act"
    /\ rules.k < Len(rules.list[rules.i].actions)
    /\ LET action == rules.list[rules.i].actions[rules.k + 1]
           attempted == Append(rules.attempted, [rule |-> rules.i, action |-> action])
       IN /\ outcome = "throw" => CanThrow(action)
          /\ IF outcome = "ok"
             THEN rules' = [rules EXCEPT !.attempted = attempted, !.k = @ + 1]
             ELSE rules' = [rules EXCEPT
                      !.attempted = attempted,
                      !.errors = @ + 1,
                      !.k = IF ActionCatch.then = "next" THEN @ + 1 ELSE @,
                      !.status = IF ActionCatch.then = "return" THEN "returned" ELSE @,
                      !.result = IF ActionCatch.returns THEN "true" ELSE @]
    /\ UNCHANGED <<runtimeVars, pipelineVars, loaderVars, response, build>>

\* the actions are exhausted: logMessageRuleAction is awaited, its rejection
\* caught, and processMessageRules returns true
ActionsDone ==
    /\ rules.status = "act"
    /\ rules.k = Len(rules.list[rules.i].actions)
    /\ rules' = [rules EXCEPT !.status = "returned", !.result = "true",
                              !.logged = Append(@, rules.i)]
    /\ UNCHANGED <<runtimeVars, pipelineVars, loaderVars, response, build>>

\* the rules are exhausted: return false
RulesExhausted ==
    /\ rules.status = "guard"
    /\ rules.i > Len(rules.list)
    /\ rules' = [rules EXCEPT !.status = "returned", !.result = "false"]
    /\ UNCHANGED <<runtimeVars, pipelineVars, loaderVars, response, build>>

\* one message under processMessageRules, on its own
InitMessageRules ==
    /\ RuntimeIdle
    /\ PipelineIdle
    /\ directory = [exists |-> TRUE, entries |-> << >>]
    /\ loader = LoaderAt("loaded")
    /\ response = [status |-> "idle"]
    /\ build = [status |-> "idle"]
    /\ InitRules

NextMessageRules ==
    \/ RuleGuard
    \/ RuleCheck
    \/ \E o \in {"ok", "throw"} : TakeAction(o)
    \/ ActionsDone
    \/ RulesExhausted

SpecMessageRules == InitMessageRules /\ [][NextMessageRules]_vars

\* a download reporting its progress, on its own
InitProgress ==
    /\ RuntimeIdle
    /\ PipelineIdle
    /\ directory = [exists |-> TRUE, entries |-> << >>]
    /\ loader = LoaderAt("loaded")
    /\ build = [status |-> "idle"]
    /\ rules = [status |-> "idle"]
    /\ InitResponse

NextProgress ==
    \/ \E e \in ProgressEvents : ProgressEvent(e[1], e[2])
    \/ NextTick
    \/ Flush
    \/ DownloadEnd

SpecProgress == InitProgress /\ [][NextProgress]_vars

\* getGuildIdResolversMap() on its own: nothing else of the process runs
InitResolverMap ==
    /\ RuntimeIdle
    /\ PipelineIdle
    /\ directory = [exists |-> TRUE, entries |-> << >>]
    /\ loader = LoaderAt("loaded")
    /\ response = [status |-> "idle"]
    /\ rules = [status |-> "idle"]
    /\ InitBuild

NextResolverMap ==
    \/ BuildEvent
    \/ BuildNextEntry
    \/ BuildReturn

SpecResolverMap == InitResolverMap /\ [][NextResolverMap]_vars

-----------------------------------------------------------------------------
(* Properties of the dispatch wrapper *)

\* the community the occurrence in dispatch resolves to
OccGuild == ResolveGuildId(occ.event, occ.args)

Entries == IF occ = NoOcc THEN {} ELSE DOMAIN occ.log

ErrorLines(logs) == {n \in DOMAIN logs : logs[n].level = "error"}

\* C1: for every extension E and community C with E disabled for C, E's handler is
\* never invoked for an occurrence that resolves to C, in any occurrence of any run.
C1_DisabledNeverInvoked ==
    \A i \in Entries :
        (OccGuild \in Guilds /\ ~isEnabled(occ.log[i].ext, OccGuild))
            => (occ.log[i].calls = 0 /\ occ.log[i].out = "disabled" /\ i \notin occ.active)

\* C1 witness: a wrapped handler of an extension disabled for the resolved community
\* has been called and has returned without invoking the handler.
C1_Witness ==
    \E i \in Entries :
        /\ OccGuild \in Guilds
        /\ ~isEnabled(occ.log[i].ext, OccGuild)
        /\ occ.log[i].settle = "resolved"

\* C2: an exception or rejection of the handler is caught, logged with the
\* extension id and swallowed: the wrapped handler resolves with undefined and
\* nothing reaches the host.
C2_ThrowSwallowed ==
    /\ hostErrors = FALSE
    /\ \A i \in Entries :
          occ.log[i].out = "threw" =>
              /\ occ.log[i].settle = "resolved"
              /\ occ.log[i].value = Undefined
              /\ \E n \in ErrorLines(occ.log[i].logs) :
                    occ.log[i].logs[n].ext = occ.log[i].ext

\* C2 witness: a handler has thrown inside its wrapped handler.
C2_Witness == \E i \in Entries : occ.log[i].out = "threw"

\* whether the wrapped handler of extension e is to invoke its handler for the
\* occurrence in dispatch: the occurrence is global, or e is enabled for its community
ShouldInvoke(e) == OccGuild = Null \/ (OccGuild \in Guilds /\ isEnabled(e, OccGuild))

\* an occurrence ends only after every listener of its event has been called
AllListenersCalled ==
    (occ # NoOcc /\ occ' = NoOcc) => Len(occ.log) = Len(EventListeners(occ.event))

\* C3: a handler that throws on occurrence N is invoked again on occurrence N+1
\* when enabled for it, and on occurrence N every other wrapped handler of the
\* same event still runs.
C3_ThrowIsolated ==
    /\ [](\A i \in Entries :
            (occ.log[i].ext \in threwLast /\ ShouldInvoke(occ.log[i].ext))
                => occ.log[i].calls = 1)
    /\ [][AllListenersCalled]_vars

\* C3 witness: extension E threw in the previous occurrence, was invoked again in
\* this one and threw, and the handler of another extension was invoked after it.
C3_Witness ==
    \E i, j \in Entries :
        /\ i < j
        /\ occ.log[i].ext \in threwLast
        /\ occ.log[i].out = "threw"
        /\ occ.log[j].ext # occ.log[i].ext
        /\ occ.log[j].calls = 1

\* the event kinds named by some entry of the resolver list
RegisteredEvents == UNION {guildIdResolvers[n].events : n \in DOMAIN guildIdResolvers}

\* C4: an occurrence of an event kind with no resolver is dropped by every wrapped
\* handler: the handler is not invoked, the enablement rule is not consulted, and
\* exactly one error is logged.
C4_UnregisteredDropped ==
    \A i \in Entries :
        occ.event \notin RegisteredEvents =>
            /\ occ.log[i].calls = 0
            /\ ~occ.log[i].checked
            /\ occ.log[i].settle = "resolved"
            /\ Len(occ.log[i].logs) = 1
            /\ Cardinality(ErrorLines(occ.log[i].logs)) = 1

\* C4 witness: a wrapped handler has been called for an event kind with no resolver.
C4_Witness == \E i \in Entries : occ.event \notin RegisteredEvents

GlobalEvents ==
    {"cacheSweep", "debug", "error", "warn", "invalidated", "ready", "shardReady",
     "shardDisconnect", "shardError", "shardReconnecting", "shardResume"}

SampleData == {NoData, DMData} \cup {GuildData(g) : g \in Guilds}
                  \cup {UncachedData(g) : g \in Guilds}

SampleArgs == {<<d>> : d \in SampleData} \cup {<<d, e>> : d \in SampleData, e \in SampleData}

\* extension e is disabled in every community and the default mode is disable_all
DisabledEverywhere(e) ==
    /\ \A g \in Guilds : ~isEnabled(e, g)
    /\ Has(systemConfig, "default_mode")
    /\ systemConfig.default_mode = "disable_all"

\* the resolver of every connection-lifecycle event returns null for every argument list
GlobalResolvesNull ==
    \A e \in GlobalEvents : \A a \in SampleArgs : ResolveGuildId(e, a) = Null

\* C5: the resolver of every connection-lifecycle event returns null, and for an
\* occurrence that resolves to null the handler is invoked without consulting the
\* enablement rule, whatever the configuration.
C5_GlobalBypassesEnablement ==
    /\ GlobalResolvesNull
    /\ \A i \in Entries :
          OccGuild = Null => (occ.log[i].calls = 1 /\ ~occ.log[i].checked)

\* C5 witness: the handler of an extension disabled everywhere ran for a global event.
C5_Witness ==
    \E i \in Entries :
        /\ occ.event \in GlobalEvents
        /\ DisabledEverywhere(occ.log[i].ext)
        /\ occ.log[i].calls = 1

\* the per-community extension configuration, {} when the community has none
ConfigOf(g) == IF g \in DOMAIN config THEN config[g] ELSE EmptyObject

\* the enablement rule as the specification states it, as a truth table over
\* enabled (unset, true, false), the default mode and membership in the disabled list
EnablementRule(e, g) ==
    LET c == ConfigOf(g)
        listed == Has(c, "disabled_extensions") /\ e \in c.disabled_extensions
        on == \/ (Has(c, "enabled") /\ c.enabled = TRUE)
              \/ (~Has(c, "enabled") /\ systemConfig.default_mode = "enable_all")
    IN on /\ ~listed

\* C6: isEnabled equals (enabled if set, otherwise default mode = enable_all) and
\* not listed as disabled, for every combination of the three inputs; the wrapped
\* handler invokes the handler of a community-scoped occurrence exactly then.
C6_EnablementRule ==
    Has(systemConfig, "default_mode") =>
        /\ \A e \in ExtIds, g \in Guilds : isEnabled(e, g) = EnablementRule(e, g)
        /\ \A i \in Entries :
              OccGuild \in Guilds =>
                  ((occ.log[i].calls = 1) = EnablementRule(occ.log[i].ext, OccGuild))

\* C6 witness: enabled = false with default mode enable_all keeps the handler from
\* running although the extension is not listed as disabled.
C6_Witness ==
    \E i \in Entries :
        /\ OccGuild \in Guilds
        /\ Has(systemConfig, "default_mode")
        /\ systemConfig.default_mode = "enable_all"
        /\ Has(ConfigOf(OccGuild), "enabled")
        /\ ConfigOf(OccGuild).enabled = FALSE
        /\ ~(Has(ConfigOf(OccGuild), "disabled_extensions")
                /\ occ.log[i].ext \in ConfigOf(OccGuild).disabled_extensions)
        /\ occ.log[i].out = "disabled"

\* C7: whatever the outcome of resolution, enablement and the handler, the wrapped
\* handler never rejects and nothing reaches the host as an exception.
C7_NeverRejects ==
    /\ hostErrors = FALSE
    /\ \A i \in Entries : occ.log[i].settle \in {"pending", "resolved"}

\* C7 witness: in one occurrence a wrapped handler returned for a disabled extension
\* and another one caught its handler's exception.
C7_Witness ==
    \E i, j \in Entries :
        /\ occ.log[i].out = "disabled"
        /\ occ.log[j].out = "threw"
        /\ occ.log[j].settle = "resolved"

\* C10: the wrapped handlers of one occurrence run in subscription order, each to
\* completion before the next begins; no two of its handlers are in progress at once.
C10_HandlersSequential ==
    occ # NoOcc =>
        /\ Cardinality(occ.active) <= 1
        /\ \A i \in occ.active : i = Len(occ.log)
        /\ \A i \in DOMAIN occ.log :
              /\ occ.log[i].ext = EventListeners(occ.event)[i].ext
              /\ (i < Len(occ.log) => occ.log[i].out # "running")

\* C10 witness: the second handler of an occurrence is running after the first one,
\* which was invoked and suspended, has completed.
C10_Witness ==
    /\ occ # NoOcc
    /\ Len(occ.log) = 2
    /\ occ.log[1].out \in {"returned", "threw"}
    /\ occ.log[2].out = "running"

-----------------------------------------------------------------------------
(* Properties of the activation loop *)

\* the positions of the log at which hook h of extension e was called
HookAt(h, e) == {p \in DOMAIN hookLog : hookLog[p] = HookEntry(h, e)}

Registered == {extensions[i] : i \in DOMAIN extensions}

\* the position of extension e in the registry
IndexOf(e) == CHOOSE i \in DOMAIN extensions : extensions[i] = e

\* C8 as stated: no registration hook starts before the post-construction hooks of
\* all loaded extensions have run.
C8_TwoPhase ==
    \A p \in DOMAIN hookLog :
        hookLog[p].hook = "register" =>
            \A e \in Registered : \E q \in HookAt("postConstruct", e) : q < p

\* C8 amended: activation is one pass in load order.  The post-construction hook of
\* an extension runs before its own registration hook starts, and only after the
\* registration hook of every extension loaded before it has completed.
C8_OnePass ==
    \A p \in DOMAIN hookLog :
        LET e == hookLog[p].ext
        IN /\ hookLog[p].hook = "register" =>
                \E q \in HookAt("postConstruct", e) : q < p
           /\ hookLog[p].hook = "postConstruct" =>
                \A i \in 1..(IndexOf(e) - 1) :
                    \E q \in HookAt("registered", extensions[i]) : q < p

\* C8 witness: with two extensions loaded, the post-construction hook of the
\* second has run, after the registration hook of the first completed.
C8_Witness ==
    /\ Len(extensions) = 2
    /\ HookAt("postConstruct", extensions[2]) # {}
    /\ HookAt("register", extensions[2]) # {}

\* C9: registration hooks run in load order, one at a time: the hook of a later
\* extension starts only after the hook of every earlier one has completed, and
\* no two registration hooks are in progress together.
C9_RegisterSequential ==
    /\ Cardinality(activation.registering) <= 1
    /\ \A p \in DOMAIN hookLog :
          hookLog[p].hook = "register" =>
              \A i \in 1..(IndexOf(hookLog[p].ext) - 1) :
                  \E q \in HookAt("registered", extensions[i]) : q < p

\* C9 witness: the registration hook of the second extension is in progress, the
\* first one's having completed.
C9_Witness ==
    /\ Len(extensions) = 2
    /\ activation.registering = {2}
    /\ HookAt("registered", extensions[1]) # {}


-----------------------------------------------------------------------------
(* Properties of the metadata client *)

\* the calls that have been made and not yet handed back
MadeCalls == {c \in DOMAIN calls : calls[c].state # "idle"}

\* every catalog request so far was answered with status 200 and the catalog
HealthyCatalog ==
    \A n \in DOMAIN fetches : fetches[n].outcome \in {"pending", "ok200"}

\* C11: with a healthy catalog, a lookup made less than 120 seconds after the
\* catalog was stored issues no request of its own (the first call's request
\* stays the only one, so any two requests are at least 120 seconds apart), and
\* a lookup made more than 120 seconds after it was stored issues a new request.
C11_OneRequestPerTtl ==
    HealthyCatalog =>
        /\ \A c \in MadeCalls :
              /\ (calls[c].age >= 0 /\ calls[c].age < CatalogTtl) => ~calls[c].issued
              /\ calls[c].age > CatalogTtl => calls[c].issued
        /\ \A m, n \in DOMAIN fetches :
              m < n => fetches[n].at - fetches[m].at >= CatalogTtl

\* C11 witness: one lookup was answered from the catalog stored less than 120
\* seconds before it, and another, made after the 120 seconds had run out,
\* issued the second request.
C11_Witness ==
    /\ HealthyCatalog
    /\ Len(fetches) = 2
    /\ \E c, d \in MadeCalls :
          /\ calls[c].age > 0 /\ calls[c].age < CatalogTtl
          /\ calls[c].state = "done" /\ ~calls[c].issued /\ calls[c].fetch = 1
          /\ calls[d].age > CatalogTtl /\ calls[d].issued /\ calls[d].fetch = 2

\* the catalog requests in flight
PendingFetches == {n \in DOMAIN fetches : fetches[n].state = "pending"}

\* C12: lookups that overlap while the catalog is not cached share one fetch:
\* at most one catalog request is in flight at any time, every waiting caller
\* waits for it, and each caller that waited receives what that fetch
\* returned (its own entry of it).
C12_StampedeProtection ==
    /\ Cardinality(PendingFetches) <= 1
    /\ \A c \in MadeCalls :
          /\ calls[c].state = "waiting" => calls[c].fetch \in PendingFetches
          /\ (calls[c].state = "done" /\ calls[c].waited) =>
                /\ fetches[calls[c].fetch].state = "settled"
                /\ calls[c].result =
                      getExtensionMetadataResult(
                          fetchExtensionMetadata(request(fetches[calls[c].fetch].outcome)),
                          calls[c].id)

\* C12 witness: two callers looked up different ids while the cache was empty,
\* one request went out, and both have its result.
C12_Witness ==
    /\ Len(fetches) = 1
    /\ \E c, d \in MadeCalls :
          /\ calls[c].id # calls[d].id
          /\ calls[c].state = "done" /\ calls[d].state = "done"
          /\ calls[c].waited /\ calls[d].waited
          /\ calls[c].issued /\ ~calls[d].issued
          /\ calls[c].fetch = 1 /\ calls[d].fetch = 1

\* C13: a lookup whose catalog request ended in a transport failure or in a
\* status other than 200 returns (null, error) with an error value.
C13_FailureYieldsError ==
    \A c \in MadeCalls :
        (calls[c].state = "done" /\ fetches[calls[c].fetch].outcome # "ok200") =>
            /\ calls[c].result.value = Null
            /\ calls[c].result.error # Null

-----------------------------------------------------------------------------
(* Properties of the install pipeline *)

\* the positions in invocation p's stream of the chunks of a kind
ChunksOf(p, kind) == {i \in DOMAIN stream[p] : stream[p][i].kind = kind}

\* the positions in invocation p's stream of a given line
LinesOf(p, chunk) == {i \in DOMAIN stream[p] : stream[p][i] = chunk}

\* the operations of invocation p that ended with an outcome
Ended(p, outcome) ==
    {inst[p].steps[i].op : i \in {j \in DOMAIN inst[p].steps :
                                     inst[p].steps[j].outcome = outcome}}

\* the operations invocation p has started
Started(p) == {inst[p].steps[i].op : i \in DOMAIN inst[p].steps}

\* the errors invocation p handed to logger.error, by operation
Logged(p) == {inst[p].logged[i] : i \in DOMAIN inst[p].logged}

\* C14: with no extensions directory configured, an install invocation starts
\* no operation (no metadata request, no download, nothing on disk) and writes
\* exactly one line, an "E:" line.
C14_UnsetDirectoryOneLine ==
    \A p \in DOMAIN inst :
        extensionsPath = Null =>
            /\ inst[p].steps = << >>
            /\ calls[p].state = "idle"
            /\ fetches = << >>
            /\ files.tarball = "absent" /\ files.tmpDir = "absent" /\ files.dest # "new"
            /\ Len(stream[p]) <= 1
            /\ (inst[p].pc = "done" /\ inst[p].sink) =>
                  /\ Len(stream[p]) = 1
                  /\ stream[p][1].kind = "E"

\* C14 witness: an invocation with a stream has returned with no extensions
\* directory configured.
C14_Witness ==
    \E p \in DOMAIN inst :
        /\ extensionsPath = Null
        /\ inst[p].pc = "done"
        /\ inst[p].sink
        /\ stream[p] = UnsetDirectoryLines
        /\ inst[p].result.tuple

\* no operation of invocation p failed, and its rename was made
AllSucceeded(p) ==
    /\ "rename" \in Ended(p, "ok")
    /\ Ended(p, "fail") = {}

\* C15: an invocation in which every operation succeeded ends with the
\* extension in the extensions directory, the tarball and the temporary
\* directory removed, and no "E:" or "W:" line written.
C15_SuccessfulInstall ==
    \A p \in DOMAIN inst :
        (inst[p].pc = "done" /\ AllSucceeded(p)) =>
            /\ files.dest = "new"
            /\ files.tarball = "absent"
            /\ files.tmpDir = "absent"
            /\ ChunksOf(p, "E") = {}
            /\ ChunksOf(p, "W") = {}

\* C15 witness: an invocation with a stream has ended, all of its operations
\* having succeeded.
C15_Witness ==
    \E p \in DOMAIN inst :
        /\ inst[p].pc = "done"
        /\ inst[p].sink
        /\ Ended(p, "ok") = {"metadata", "download", "extract", "rename", "rmTmp", "rmTarball"}
        /\ Ended(p, "fail") = {}
        /\ files.dest = "new"

\* the renames of invocation p that ended, having found `found` at the destination
RenamesInto(p, found) ==
    {i \in DOMAIN inst[p].steps :
        /\ inst[p].steps[i].op = "rename"
        /\ inst[p].steps[i].found \in found
        /\ inst[p].steps[i].outcome # "pending"}

\* C16: whenever a directory of the extension's short name exists in the
\* extensions directory at the rename, empty or with an installed extension in
\* it, the rename fails, the pipeline reports its "E:" line and aborts, and the
\* directory is left as it was.
C16_NeverOverwrites ==
    \A p \in DOMAIN inst :
        \A i \in RenamesInto(p, {"empty", "old"}) :
            /\ inst[p].steps[i].outcome = "fail"
            /\ files.dest = inst[p].steps[i].found
            /\ inst[p].sink => LinesOf(p, Fatal("Failed to set up extension")) # {}
            /\ "rmTmp" \notin Started(p)

\* the operations invocation p started after it had written k chunks
StartedAfter(p, k) ==
    {inst[p].steps[i].op : i \in {j \in DOMAIN inst[p].steps : inst[p].steps[j].wrote >= k}}

\* C17, as stated: once an "E:" line is written, no operation starts and no
\* further line is written in that invocation.
C17_FatalTerminates ==
    \A p \in DOMAIN inst :
        \A k \in ChunksOf(p, "E") :
            /\ k = Len(stream[p])
            /\ StartedAfter(p, k) = {}

\* C17, amended: once an "E:" line is written, the installation is over: no
\* extraction, rename or removal of the temporary directory starts and no
\* status line follows.  After the "E:" line of a failed extraction or rename
\* the downloaded tarball is still removed, and the only line that can follow
\* is the "W:" line of that removal failing.
C17_FatalEndsInstallation ==
    \A p \in DOMAIN inst :
        \A k \in ChunksOf(p, "E") :
            /\ ChunksOf(p, "E") = {k}
            /\ StartedAfter(p, k) \subseteq {"rmTarball"}
            /\ "rmTarball" \in StartedAfter(p, k) =>
                  stream[p][k] \in {Fatal("Unable to unpack extension"),
                                    Fatal("Failed to set up extension")}
            /\ \A i \in (k + 1)..Len(stream[p]) :
                  /\ stream[p][i] = Advisory("Failed to clean download caches")
                  /\ i = k + 1
                  /\ "rmTarball" \in Ended(p, "fail")

\* C17 witness: the extraction failed, its "E:" line was written, and the
\* removal of the tarball, started after it, failed with a "W:" line.
C17_Witness ==
    \E p \in DOMAIN inst :
        /\ inst[p].pc = "done"
        /\ Len(stream[p]) >= 2
        /\ stream[p][Len(stream[p]) - 1] = Fatal("Unable to unpack extension")
        /\ stream[p][Len(stream[p])] = Advisory("Failed to clean download caches")
        /\ "rmTarball" \in StartedAfter(p, Len(stream[p]) - 1)

\* C18: after a successful rename, a failure to remove the temporary
\* directory or the tarball is reported with a "W:" line and never an "E:"
\* line, and the installed extension stays in place.
C18_CleanupAdvisory ==
    \A p \in DOMAIN inst :
        "rename" \in Ended(p, "ok") =>
            /\ files.dest = "new"
            /\ ChunksOf(p, "E") = {}
            /\ ("rmTmp" \in Ended(p, "fail") /\ inst[p].sink) =>
                  LinesOf(p, Advisory("Failed to clean up temporary files")) # {}
            /\ ("rmTarball" \in Ended(p, "fail") /\ inst[p].sink) =>
                  LinesOf(p, Advisory("Failed to clean download caches")) # {}
            /\ Cardinality(ChunksOf(p, "W")) =
                  Cardinality(Ended(p, "fail") \cap (IF inst[p].sink THEN {"rmTmp", "rmTarball"} ELSE {}))

\* C18 witness: after a successful rename both removals failed and the
\* invocation has ended with two "W:" lines.
C18_Witness ==
    \E p \in DOMAIN inst :
        /\ inst[p].pc = "done"
        /\ "rename" \in Ended(p, "ok")
        /\ Ended(p, "fail") = {"rmTmp", "rmTarball"}
        /\ Cardinality(ChunksOf(p, "W")) = 2
        /\ files.dest = "new"

\* the install steps of invocation p that failed
FailedSteps(p) == Ended(p, "fail") \cap {"metadata", "download", "extract", "rename"}

\* an invocation in which a step failed goes to its end, returns to its caller
\* and has an "E:" line on its stream
FailureContained(p) ==
    /\ inst[p].pc \in {"rmTarball", "done"}
    /\ inst[p].pc = "done" => inst[p].result.returned
    /\ inst[p].sink => Cardinality(ChunksOf(p, "E")) = 1

\* C19, as stated: a failure of any install step ends the invocation with a
\* return to the caller, an "E:" line on the stream and the error handed to
\* the logger.
C19_FailureReported ==
    \A p \in DOMAIN inst :
        FailedSteps(p) # {} =>
            /\ FailureContained(p)
            /\ FailedSteps(p) \subseteq Logged(p)

\* C19, amended: a failure of any install step ends the invocation with a
\* return to the caller and an "E:" line on the stream; a failed download,
\* extraction or rename is also handed to the logger, while a failed metadata
\* lookup is not logged: its error is returned to the caller as [null, error].
C19_FailureContained ==
    \A p \in DOMAIN inst :
        FailedSteps(p) # {} =>
            /\ FailureContained(p)
            /\ FailedSteps(p) \ {"metadata"} \subseteq Logged(p)
            /\ "metadata" \in FailedSteps(p) =>
                  /\ Logged(p) = {}
                  /\ inst[p].result = ReturnPair(Null, calls[p].result.error)

\* C19 witness: the rename failed, was logged and reported, and the
\* invocation has returned.
C19_Witness ==
    \E p \in DOMAIN inst :
        /\ inst[p].pc = "done"
        /\ inst[p].result.returned
        /\ FailedSteps(p) = {"rename"}
        /\ "rename" \in Logged(p)
        /\ LinesOf(p, Fatal("Failed to set up extension")) # {}

-----------------------------------------------------------------------------
(* Properties of the loader *)

\* the entries of a kind the loader has taken so far
Taken(kind) == {j \in 1..loader.i : directory.entries[j] = kind}

\* the registry as a set
Loaded == {extensions[n] : n \in DOMAIN extensions}

\* the entries the loader logged an error for
ErrorLogged == {loader.log[n].name : n \in {m \in DOMAIN loader.log : loader.log[m].level = "error"}}

\* the extensions a hook was called on
Hooked == {hookLog[n].ext : n \in DOMAIN hookLog}

\* the entries after j that the loader took
TakenAfter(j) == {k \in 1..loader.i : k > j}

\* C21: a candidate directory without a manifest ends the process with a
\* non-zero exit status: the loader logs the error, exits on the spot, does not
\* load the directory and takes no later entry.
C21_MissingManifestExits ==
    \A j \in Taken("noManifest") :
        /\ loader.status = "exited"
        /\ loader.exitCode # 0
        /\ DirNames[j] \in ErrorLogged
        /\ DirNames[j] \notin Loaded
        /\ TakenAfter(j) = {}

\* C21 witness: the loader exited on a manifest-less directory that has a
\* loaded extension before it and a valid one after it.
C21_Witness ==
    /\ loader.status = "exited"
    /\ directory.entries = <<"valid", "noManifest", "valid">>
    /\ extensions = <<DirNames[1]>>

\* the names of the valid entries among the first n of the listing, in order
RECURSIVE ValidNames(_)
ValidNames(n) ==
    IF n = 0 THEN << >>
    ELSE IF directory.entries[n] = "valid" THEN Append(ValidNames(n - 1), DirNames[n])
    ELSE ValidNames(n - 1)

\* C22: a manifest that fails schema validation is logged as an error and its
\* extension is neither loaded nor activated; loading goes on, and once the
\* listing is exhausted every valid extension of it is in the registry.
C22_InvalidManifestSkipped ==
    \A j \in Taken("invalid") :
        /\ DirNames[j] \in ErrorLogged
        /\ DirNames[j] \notin Loaded
        /\ DirNames[j] \notin Hooked
        /\ loader.i = j => loader.status \in {"loading", "loaded"}
        /\ loader.status = "loaded" => extensions = ValidNames(Len(directory.entries))

\* C22 witness: the listing held a valid, an invalid and a valid extension, and
\* the loader has finished with the two valid ones in the registry.
C22_Witness ==
    /\ loader.status = "loaded"
    /\ directory.entries = <<"valid", "invalid", "valid">>
    /\ extensions = <<DirNames[1], DirNames[3]>>

RegistryAppended ==
    /\ Len(extensions') >= Len(extensions)
    /\ SubSeq(extensions', 1, Len(extensions)) = extensions

\* C24: the registry is append-only and ordered: every step leaves it as it is
\* or appends to it, and it always holds the valid extensions the loader has
\* taken so far, in the order of the listing.
C24_AppendOnly ==
    /\ [](extensions = ValidNames(loader.i))
    /\ [][RegistryAppended]_vars

\* C24 witness: the loader has put two extensions in the registry, a skipped
\* entry between them, and activation has begun.
C24_Witness ==
    /\ loader.status = "loaded"
    /\ directory.entries = <<"valid", "file", "valid">>
    /\ extensions = <<DirNames[1], DirNames[3]>>
    /\ hookLog # << >>

\* C25: no step of an install invocation, successful or failed, changes the
\* running process's registry, its registered event handlers or its
\* activation state: what is installed is not loaded.
C25_InstallLoadsNothing ==
    [][/\ extensions' = extensions
       /\ listeners' = listeners
       /\ activation' = activation
       /\ hookLog' = hookLog]_vars

\* C25 witness: an invocation has installed the extension while two other
\* extensions were loaded and subscribed; the installed one is not among them.
C25_Witness ==
    \E p \in DOMAIN inst :
        /\ inst[p].pc = "done"
        /\ files.dest = "new"
        /\ Len(extensions) = 2
        /\ Len(listeners) = 2
        /\ inst[p].id \notin Loaded

\* the invocations whose metadata lookup has come back with an error or
\* without an entry for the id
LookupFailed ==
    {p \in DOMAIN inst :
        /\ inst[p].pc \notin {"start", "metadata"}
        /\ calls[p].state = "done"
        /\ \/ calls[p].result.error # Null
           \/ Nullish(calls[p].result.value)}

\* C30: when the metadata lookup fails or the catalog has no entry for the id,
\* the invocation writes one "E:" line after the "Fetching metadata" line and
\* is over: no sentinel, no download or later operation, nothing on disk.
C30_MetadataFailureAborts ==
    \A p \in LookupFailed :
        /\ inst[p].pc = "done"
        /\ inst[p].sink => stream[p] = <<Status("Fetching metadata")>> \o MetadataFailureLines
        /\ ChunksOf(p, "sentinel") = {}
        /\ Started(p) = {"metadata"}
        /\ files.tarball = "absent" /\ files.tmpDir = "absent" /\ files.dest # "new"

\* C30 witness: the catalog was fetched and has no entry for the id asked for;
\* the invocation has ended after its two lines.
C30_Witness ==
    \E p \in LookupFailed :
        /\ inst[p].id \notin CatalogIds
        /\ fetches[calls[p].fetch].outcome = "ok200"
        /\ calls[p].result.error = Null
        /\ Len(stream[p]) = 2
        /\ stream[p][2].kind = "E"

\* C28: when the occurrence resolves to null, or to a community the extension
\* is enabled for, the wrapped handler invokes the handler once, with the
\* arguments of the occurrence as they came; each listener is called at most
\* once per occurrence.
C28_InvokedOnceWithArgs ==
    /\ occ # NoOcc => Len(occ.log) <= Len(EventListeners(occ.event))
    /\ \A i \in Entries :
          ShouldInvoke(occ.log[i].ext) =>
              /\ occ.log[i].calls = 1
              /\ occ.log[i].passed = occ.args

\* C28 witness: a handler has returned from an occurrence of a two-argument
\* event that resolves to null, having been handed both arguments in order.
C28_Witness ==
    \E i \in Entries :
        /\ Len(occ.args) = 2
        /\ occ.args[1] # occ.args[2]
        /\ OccGuild = Null
        /\ occ.log[i].out = "returned"
        /\ occ.log[i].passed = occ.args

\* what the handler of a settled entry did, as an outcome of the handler
OutcomeOf(entry) == IF entry.out = "threw" THEN "throw" ELSE "return"

\* C29: the bail flag changes nothing observable: whatever a wrapped handler
\* did for an occurrence (handler invocations, lines logged, settlement and
\* value of its promise) is what the same call does with bail set and with
\* bail unset.
C29_BailUnobservable ==
    \A i \in Entries :
        LET e == occ.log[i]
            l == EventListeners(occ.event)[i]
        IN e.out # "running" =>
              \A bail \in BOOLEAN :
                  WrappedRun(l.ext, l.event, occ.args, bail, OutcomeOf(e))
                      = [calls |-> e.calls, logs |-> e.logs,
                         settle |-> e.settle, value |-> e.value]

\* C29 witness: a handler has thrown, and its wrapped handler, registered
\* without bail, has done what it does with bail set: logged the two error
\* lines after the 'Running' line and resolved with undefined.
C29_Witness ==
    \E i \in Entries :
        /\ occ.log[i].out = "threw"
        /\ ~EventListeners(occ.event)[i].bail
        /\ Len(occ.log[i].logs) = 3
        /\ WrappedRun(occ.log[i].ext, occ.event, occ.args, TRUE, "throw")
              = [calls |-> 1, logs |-> occ.log[i].logs,
                 settle |-> "resolved", value |-> Undefined]

\* the wrapped handlers the host holds for extension e and event kind k
HandlersOf(e, k) == {n \in DOMAIN listeners : listeners[n].ext = e /\ listeners[n].event = k}

\* C26 as stated: the host holds at most one wrapped handler of an extension
\* for an event kind, whatever event classes have been loaded.
C26_OnePerPair ==
    \A e \in ExtIds, k \in DispatchEvents : Cardinality(HandlersOf(e, k)) <= 1

\* C26: loading one event class subscribes one wrapped handler, for that
\* class's extension and event kind, after the handlers already subscribed;
\* none is replaced or removed.
C26_OnePerEventClass ==
    [][listeners' # listeners =>
          \E e \in ExtIds, k \in DispatchEvents :
              /\ listeners' = Append(listeners, wrapHandler(e, k, FALSE))
              /\ Cardinality(HandlersOf(e, k)') = Cardinality(HandlersOf(e, k)) + 1]_vars

\* C26 witness: two event classes of one extension for one event kind have
\* been loaded, and the host holds a wrapped handler for each.
C26_Witness ==
    \E e \in ExtIds, k \in DispatchEvents : Cardinality(HandlersOf(e, k)) = 2

\* invocation p has had operation op end with outcome o
Did(p, op, o) ==
    \E n \in DOMAIN inst[p].steps :
        inst[p].steps[n].op = op /\ inst[p].steps[n].outcome = o

\* invocation p is about to rename what it has extracted, and it is no longer
\* in the temporary directory
Lost(p) ==
    /\ inst[p].pc = "rename"
    /\ Did(p, "extract", "ok")
    /\ files.tmpDir # "extracted"

\* C27: installs of one id are not mutually excluded or deduplicated, and
\* they share the tarball, the temporary directory and the destination: an
\* invocation not yet started can start whatever the other is doing, and
\* when what an invocation extracted is gone before its rename, another
\* invocation's rename has taken it and the rename of the first cannot
\* succeed.
C27_InstallsNotExcluded ==
    /\ \A p \in DOMAIN inst : inst[p].pc = "start" => ENABLED InstallStart(p)
    /\ \A p \in DOMAIN inst :
          Lost(p) => /\ \E q \in DOMAIN inst \ {p} : Did(q, "rename", "ok")
                     /\ ~ENABLED RenameSettle(p, "ok")

\* C27 witness: both invocations have downloaded and extracted for
\* themselves, one has renamed the extracted directory into place, and the
\* other, still to rename it, no longer finds it.
C27_Witness ==
    \E p \in DOMAIN inst, q \in DOMAIN inst :
        /\ p # q
        /\ inst[p].id = inst[q].id
        /\ Did(p, "download", "ok") /\ Did(q, "download", "ok")
        /\ Did(q, "extract", "ok") /\ Did(q, "rename", "ok")
        /\ Lost(p)
        /\ files.dest = "new"

\* the event kinds whose payload is a community or names one by type: their
\* resolver reads the id of the community itself
IdentifiedByGuild ==
    guildIdResolvers[1].events \cup guildIdResolvers[9].events
        \cup guildIdResolvers[10].events

\* the community-scoped event kinds whose payload can come from outside any community
DMCapableEvents == (RegisteredEvents \ GlobalEvents) \ IdentifiedByGuild

\* the argument lists made of payloads that carry no community id
DMArgs == {<<DMData>>, <<DMData, DMData>>, <<DMData, DMData, DMData, DMData>>}

\* every resolver of such a kind answers undefined, not null, to such arguments
DMResolvesUndefined ==
    \A e \in DMCapableEvents : \A a \in DMArgs : ResolveGuildId(e, a) = Undefined

\* C33: a community-scoped event whose payload carries no community id
\* resolves to undefined, not null, whatever the kind; every wrapped handler
\* drops such an occurrence with one error line, without consulting the
\* enablement rule and without invoking the handler.
C33_NoCommunityDropped ==
    /\ DMResolvesUndefined
    /\ \A i \in Entries :
          (occ.event \in DMCapableEvents /\ occ.args \in DMArgs) =>
              /\ occ.log[i].guildId = Undefined
              /\ occ.log[i].out = "dropped"
              /\ occ.log[i].calls = 0
              /\ ~occ.log[i].checked
              /\ Len(occ.log[i].logs) = 1
              /\ ErrorLines(occ.log[i].logs) = {1}

\* C33 witness: the wrapped handler of an extension that is enabled in every
\* community by default has been called for a direct message.
C33_Witness ==
    \E i \in Entries :
        /\ occ.event = "messageCreate"
        /\ occ.args = <<DMData>>
        /\ Has(systemConfig, "default_mode")
        /\ systemConfig.default_mode = "enable_all"
        /\ \A g \in Guilds : isEnabled(occ.log[i].ext, g)
        /\ occ.log[i].out = "dropped"

\* C34: with no default mode in the system configuration, an extension is
\* disabled in every community that does not set enabled; a community with
\* no extension configuration is governed by the default mode alone; and the
\* wrapped handler invokes no handler for an occurrence of a community the
\* first case covers.
C34_NoDefaultModeDisables ==
    /\ \A g \in Guilds, e \in ExtIds :
          /\ (~Has(systemConfig, "default_mode") /\ ~Has(ConfigOf(g), "enabled"))
                 => ~isEnabled(e, g)
          /\ ConfigOf(g) = EmptyObject
                 => (isEnabled(e, g) <=> (/\ Has(systemConfig, "default_mode")
                                          /\ systemConfig.default_mode = "enable_all"))
    /\ \A i \in Entries :
          (/\ OccGuild \in Guilds
           /\ ~Has(systemConfig, "default_mode")
           /\ ~Has(ConfigOf(OccGuild), "enabled")) => occ.log[i].calls = 0

\* C34 witness: no default mode is defined, and a wrapped handler has been
\* called for an occurrence of a community that does not set enabled.
C34_Witness ==
    \E i \in Entries :
        /\ OccGuild \in Guilds
        /\ systemConfig = EmptyObject
        /\ ~Has(ConfigOf(OccGuild), "enabled")
        /\ occ.log[i].out = "disabled"

\* the elements of a sequence
Range(seq) == {seq[n] : n \in DOMAIN seq}

\* the event kinds some entry of list l names
NamedBy(l) == UNION {Range(l[n].events) : n \in DOMAIN l}

\* the last entry of list l that names event e
LastNaming(l, e) ==
    CHOOSE n \in DOMAIN l :
        /\ e \in Range(l[n].events)
        /\ \A m \in DOMAIN l : e \in Range(l[m].events) => m <= n

\* how many events the first n entries of list l name, with repetitions
RECURSIVE EventCount(_, _)
EventCount(l, n) == IF n = 0 THEN 0 ELSE EventCount(l, n - 1) + Len(l[n].events)

\* list l with the events of each entry as a set
AsSets(l) == [n \in DOMAIN l |-> [events |-> Range(l[n].events), resolver |-> l[n].resolver]]

\* C32: building the resolver map never fails and, once it has returned, the
\* map has exactly the event kinds some entry names, each with the resolver
\* of the last entry naming it, and every overlap has been warned about; the
\* loops agree with the fold of the entry list, and the fixed list maps each
\* of its kinds to the resolver of its own entry.
C32_FoldLastWins ==
    /\ build.status \in {"building", "done"}
    /\ build.status = "building" =>
          ENABLED (BuildEvent \/ BuildNextEntry \/ BuildReturn)
    /\ build.status = "done" =>
          /\ DOMAIN build.map = NamedBy(build.entries)
          /\ \A e \in DOMAIN build.map :
                build.map[e] = build.entries[LastNaming(build.entries, e)].resolver
          /\ Len(build.warns) =
                2 * (EventCount(build.entries, Len(build.entries))
                        - Cardinality(NamedBy(build.entries)))
          /\ build.map = FoldResolvers(AsSets(build.entries), Len(build.entries))
    /\ DOMAIN getGuildIdResolversMap = RegisteredEvents
    /\ \A n \in DOMAIN guildIdResolvers : \A e \in guildIdResolvers[n].events :
          getGuildIdResolversMap[e] = guildIdResolvers[n].resolver

\* C32 witness: the map has been built from a list whose first two entries
\* both name messageCreate; it has the resolver of the second, and the
\* overlap was warned about.
C32_Witness ==
    /\ build.status = "done"
    /\ Len(build.entries) >= 2
    /\ "messageCreate" \in Range(build.entries[1].events)
    /\ "messageCreate" \in Range(build.entries[2].events)
    /\ LastNaming(build.entries, "messageCreate") = 2
    /\ build.map["messageCreate"] = 2
    /\ Len(build.warns) >= 2

\* C35: a boot that does not end in an exit boots the configuration service
\* exactly once: at once, with nothing loaded or registered, when there is no
\* extensions directory; otherwise once the whole listing has been processed
\* and the configuration of the loaded extensions has been registered.  Until
\* then, and in a boot that fails, it is not booted.
C35_ConfigBootedOnce ==
    /\ loader.configBoots <= 1
    /\ loader.status \in {"booted", "loaded"} <=> loader.configBoots = 1
    /\ loader.status = "booted" =>
          /\ extensionsPath = Null \/ ~directory.exists
          /\ loader.i = 0
          /\ ~loader.registered
          /\ extensions = << >>
    /\ loader.status = "loaded" =>
          /\ extensionsPath # Null /\ directory.exists
          /\ loader.i = Len(directory.entries)
          /\ loader.registered
          /\ extensions = ValidNames(Len(directory.entries))
    /\ loader.registered => loader.status = "loaded"

\* C35 witness: the loader went through a listing with an invalid manifest
\* and two valid extensions, registered their configuration and booted the
\* configuration service, and the activation loop has run a hook since.
C35_Witness ==
    /\ loader.status = "loaded"
    /\ loader.configBoots = 1
    /\ loader.registered
    /\ Len(extensions) = 2
    /\ Taken("invalid") # {}
    /\ hookLog # << >>

\* C36: an invocation that failed at extraction or at rename has returned
\* without starting the removal of the temporary directory, which is still
\* there, and has gone on to remove the tarball; an invocation that failed
\* during download has started neither removal.
C36_CleanupAfterFailure ==
    \A p \in DOMAIN inst :
        /\ ({"extract", "rename"} \cap Ended(p, "fail") # {}) =>
              /\ "rmTmp" \notin Started(p)
              /\ files.tmpDir # "absent"
              /\ "rmTarball" \in Started(p)
              /\ "rmTarball" \in Ended(p, "ok") => files.tarball = "absent"
              /\ inst[p].pc \in {"rmTarball", "done"}
        /\ "download" \in Ended(p, "fail") =>
              /\ "rmTmp" \notin Started(p)
              /\ "rmTarball" \notin Started(p)
              /\ files.tmpDir = "absent"
              /\ inst[p].pc = "done"

\* C36 witness: an invocation whose rename failed has ended; the extracted
\* directory is still in the temporary area and the tarball is gone.
C36_Witness ==
    \E p \in DOMAIN inst :
        /\ inst[p].pc = "done"
        /\ "rename" \in Ended(p, "fail")
        /\ "rmTarball" \in Ended(p, "ok")
        /\ files.tmpDir = "extracted"
        /\ files.tarball = "absent"

C38_ReturnValues ==
    \A p \in DOMAIN inst :
        inst[p].pc = "done" =>
            /\ inst[p].result.returned
            /\ inst[p].result.tuple <=>
                  (extensionsPath = Null \/ "metadata" \in Ended(p, "fail"))
            /\ inst[p].result.tuple => inst[p].result.value = Null
            /\ (extensionsPath = Null) =>
                  inst[p].result = ReturnPair(Null, "E: Extensions directory is not set")
            /\ ({"download", "extract", "rename"} \cap Ended(p, "fail") # {}
                    \/ AllSucceeded(p)) =>
                  inst[p].result = [returned |-> TRUE, tuple |-> FALSE,
                                    value |-> Undefined, error |-> Undefined]

\* C38 witness: an invocation whose rename failed has returned, and what it
\* returned is not a pair.
C38_Witness ==
    \E p \in DOMAIN inst :
        /\ inst[p].pc = "done"
        /\ "rename" \in Ended(p, "fail")
        /\ inst[p].result.returned
        /\ ~inst[p].result.tuple
        /\ inst[p].result.value = Undefined

\* C31: a write to the stream completes only once the stream has taken it: on
\* the next tick when write() reported the buffer below its mark, and
\* otherwise not before the stream's 'drain'; and the download delivers no
\* progress event while the write of the previous one is pending, so at most
\* one write is pending and the buffer grows by at most one chunk beyond what
\* it held when the stream last reported itself ready.
C31_Backpressure ==
    /\ response.status \in {"downloading", "downloaded"}
    /\ \A n \in DOMAIN response.completed :
          response.completed[n].ready <=> response.completed[n].by = "tick"
    /\ \A n \in DOMAIN response.pending :
          ~response.pending[n].ready =>
              /\ response.pending[n].on = "drain"
              /\ response.needDrain
              /\ response.buffer # << >>
    /\ Len(response.pending) <= 1
    /\ Len(response.buffer) <= HighWaterMark
    /\ Len(response.pending) + Len(response.completed) <= response.events

\* C31 witness: a write that found the buffer full is pending while the
\* consumer has yet to empty the buffer, and an earlier write completed on
\* the next tick.
C31_Witness ==
    /\ response.status = "downloading"
    /\ Len(response.pending) = 1
    /\ ~response.pending[1].ready
    /\ Len(response.buffer) = HighWaterMark
    /\ response.completed # << >>
    /\ response.events < MaxChunks

\* the rules of the list that no guard skips for the message
Candidates == {j \in DOMAIN rules.list : SkipReason(rules.list[j], rules.deletable) = "none"}

\* the first rule that is not skipped and whose check matches, or 0
FirstMatch ==
    LET matching == {j \in Candidates : rules.list[j].check = "match"}
    IN IF matching = {} THEN 0
       ELSE CHOOSE j \in matching : \A m \in matching : j <= m

\* the actions of rule j, each as an attempt
AllActions(j) ==
    [n \in DOMAIN rules.list[j].actions |-> [rule |-> j, action |-> rules.list[j].actions[n]]]

\* the checks that threw, and the actions that did
CheckErrors ==
    Cardinality({n \in DOMAIN rules.evaluated : rules.list[rules.evaluated[n]].check = "throw"})
ActionErrors == rules.errors - CheckErrors

\* the rules are evaluated in configured order, a skipped rule is never
\* evaluated, a rule whose check throws or does not match is followed by the
\* next, no rule after the first match is evaluated, and false is returned
\* exactly when no rule matched
EvaluatedInOrder ==
    /\ \A n \in DOMAIN rules.evaluated : rules.evaluated[n] \in Candidates
    /\ \A n, m \in DOMAIN rules.evaluated : n < m => rules.evaluated[n] < rules.evaluated[m]
    /\ \A n \in DOMAIN rules.evaluated :
          FirstMatch # 0 => rules.evaluated[n] <= FirstMatch
    /\ \A n \in DOMAIN rules.attempted : rules.attempted[n].rule = FirstMatch
    /\ rules.status = "returned" =>
          /\ rules.result = "false" <=> FirstMatch = 0
          /\ rules.result = "true" <=> FirstMatch # 0
          /\ {rules.evaluated[n] : n \in DOMAIN rules.evaluated} =
                {j \in Candidates : FirstMatch = 0 \/ j <= FirstMatch}

\* C39, as stated: rules are evaluated in order with the skips, and when true
\* is returned every action of the first matching rule has been attempted, in
\* order.
C39_AllActionsAttempted ==
    /\ EvaluatedInOrder
    /\ (rules.status = "returned" /\ rules.result = "true") =>
          rules.attempted = AllActions(FirstMatch)

\* C39, amended: rules are evaluated in order with the skips, and at the first
\* matching rule its actions are attempted in order until one throws: the
\* throw is logged, the remaining actions and the log entry of the rule are
\* left out, and true is returned all the same.  Every action has been
\* attempted, and the rule has been logged, exactly when no action threw.
C39_ActionsUntilThrow ==
    /\ EvaluatedInOrder
    /\ rules.status \in {"guard", "check", "act", "returned"}
    /\ ActionErrors \in {0, 1}
    /\ FirstMatch # 0 =>
          /\ Len(rules.attempted) <= Len(AllActions(FirstMatch))
          /\ \A n \in DOMAIN rules.attempted : rules.attempted[n] = AllActions(FirstMatch)[n]
    /\ ActionErrors = 1 =>
          /\ rules.status = "returned" /\ rules.result = "true"
          /\ rules.logged = << >>
          /\ CanThrow(rules.attempted[Len(rules.attempted)].action)
    /\ (rules.status = "returned" /\ rules.result = "true" /\ ActionErrors = 0) =>
          /\ rules.attempted = AllActions(FirstMatch)
          /\ rules.logged = <<FirstMatch>>

\* C39 witness: the first rule was skipped or did not match, the second
\* matched, its first action threw, and true was returned with its later
\* actions never attempted.
C39_Witness ==
    /\ rules.status = "returned"
    /\ rules.result = "true"
    /\ FirstMatch = 2
    /\ ActionErrors = 1
    /\ Len(rules.attempted) = 1
    /\ Len(rules.list[2].actions) > 1

=============================================================================
